---------------------------- MODULE Spec2Model ----------------------------
(***************************************************************************)
(* A model of FTL (vvennela/ftl): the credential-swap proxy, the sandbox   *)
(* boot protocol, the env file written into the container, the session     *)
(* orchestrator and the snapshot stores.  Each subsystem has its own       *)
(* specification (SpecSwap, SpecRelay, SpecHttp, SpecBoot, SpecEnv,        *)
(* SpecSession, SpecStart, SpecDiff, SpecServe, SpecStore, SpecExec,       *)
(* SpecCert, SpecTunnel, SpecShell); the variables of the other subsystems *)
(* are parked at a constant value and left unchanged.                      *)
(*                                                                         *)
(* Bytes are drawn from a three-letter alphabet; a byte string is a        *)
(* sequence of letters.  The swap table is a sequence of <<shadow, real>>  *)
(* pairs with distinct shadows: a Python dict iterated in insertion order. *)
(***************************************************************************)
EXTENDS Integers, Sequences, FiniteSets, TLC

VARIABLES
    \* ---- proxy (src/ftl/proxy.py)
    swap_table,      \* _ProxyServer.swap_table: <<shadow, real>> pairs in dict order
    data,            \* the buffer handed to _swap
    result,          \* what _swap returned
    swapDone,        \* _swap has been called
    \* ---- one CONNECT tunnel in _relay
    cl_stream,       \* the bytes the client writes into the tunnel
    cl_out,          \* the part of cl_stream the proxy has not read yet
    up_in,           \* the bytes written to the upstream socket
    up_out,          \* bytes upstream has written and the proxy has not read yet
    cl_in,           \* the bytes written to the client socket
    relay,           \* "open" while the loop of _relay runs, then "closed"
    \* ---- one plain-HTTP request in _forward
    req,             \* the request the client sent
    up_req,          \* <<>> or <<the request upstream received>>
    resp,            \* <<>> or <<the response written to the client>>
    \* ---- sandbox boot (src/ftl/sandbox/docker.py), one session per process
    cfile,           \* the project's container record on disk: <<>> or <<id>>
    flock,           \* holder of the advisory lock on the .lock file: <<>> or <<p>>
    running,         \* ids of the containers docker reports running
    created,         \* number of containers created so far (their ids: 1..created)
    standby_id,      \* DockerSandbox._standby_id of each process: <<>> or <<id>>
    boot_pc,         \* where each process is in boot()
    existing_id,     \* boot's local existing_id: <<>> or <<id>>
    container_id,    \* DockerSandbox.container_id of the process's sandbox
    fresh,           \* DockerSandbox.fresh
    prev_id,         \* history: the id the last boot() that returned gave, or <<>>
    solo,            \* history: no other boot() has run since the process's boot() began
    \* ---- what a session finds on the host (src/ftl/orchestrator.py)
    dotenv,          \* the project's .env as dotenv_values parses it
    environ,         \* os.environ of the ftl process
    config,          \* .ftlconfig: agent, shadow_env, agent_env, guardrail_id
    crypto,          \* whether the cryptography package can be imported
    \* ---- the Session object and the locals of start()
    s_pc,            \* where the session is: a step of start(), or "open"
    snapshot_id,     \* Session.snapshot_id: <<>> or <<index into snapshots>>
    shadow_env,      \* Session.shadow_env: <<>> (None) or name -> placeholder
    proxy,           \* Session._proxy is not None
    proxy_running,   \* the proxy's server is serving
    agent_env,       \* start()'s local agent_env
    sandbox,         \* Session.sandbox is not None (a container is attached)
    parked,          \* the session's container was put on standby
    env_file,        \* /tmp/.ftl_env in the container: <<>> or name -> value
    ca_installed,    \* the proxy CA is in the container's trust store
    sb_fresh,        \* DockerSandbox.fresh of the last boot(): <<>> before any, else <<b>>
    agent,           \* agent worker: "idle", "running", "done"
    tester,          \* test-generation worker: "idle", "running", "done"
    test_code,       \* what the tester returned: "none", "code", "raised"
    tests_run,       \* run_test_code ran in the sandbox
    edits,           \* file operations the agents have done so far
    workspace,       \* /workspace in the container: path -> content
    diffs,           \* Session.diffs: <<>> (None) or <<path -> diff entry>>
    \* ---- what persists on the host
    project,         \* the project tree: path -> content
    snapshots,       \* the snapshot directories, in order of creation
    logs,            \* ~/.ftl/logs.jsonl
    last,            \* the Session call that ran last, and how merge() went
    \* ---- the proxy server and its connections (src/ftl/proxy.py)
    p_server,        \* CredentialSwapProxy._server is not None
    p_thread,        \* CredentialSwapProxy._thread is not None (start() was called)
    loop,            \* serve_forever is running in the ftl-proxy thread
    shutdown_request,\* the server's shutdown flag, set by shutdown()
    busy,            \* the connection the server thread is handling: <<>> or <<c>>
    conn,            \* where each client connection is
    reply,           \* the status lines each client has received
    ended,           \* why each connection ended, "open" while it has not
    up_sent,         \* the bytes written to each connection's upstream socket
    stop_pc,         \* where the session thread is in stop()
    stops,           \* number of stop() calls so far
    at_stop,         \* history: the relays that were active at the last stop() call
    \* ---- the snapshot store (src/ftl/snapshot/local.py, s3.py)
    backend,         \* config snapshot_backend: "local" or "s3"
    snap_dir,        \* ~/.ftl/snapshots: snapshot id -> tree (path -> content)
    bucket,          \* the S3 bucket: <<id, project path>> of the key -> tarball
    host,            \* the directories of the host: directory -> tree
    escaped,         \* files an extraction wrote outside its target directory
    issued,          \* the snapshot ids in use so far (uuid4 gives a new one)
    deleted_ids,     \* history: the ids in use that delete() has been called with
    st_last,         \* the store call that ran last, and what it gave
    \* ---- one exec or exec_stream call of DockerSandbox (src/ftl/sandbox/docker.py)
    ex_pc,           \* "idle", "running" (the caller is blocked in the call), "done"
    ex_call,         \* <<>> or the call: which method, its timeout, the command
    ex_clock,        \* seconds since the call began
    ex_ret,          \* <<>> or <<what the call returned or raised>>
    \* ---- the leaf contexts of the proxy server (src/ftl/proxy.py)
    ssl_ctx_cache,   \* _ProxyServer.ssl_ctx_cache: host -> context
    ssl_ctx_lock,    \* holder of _ProxyServer.ssl_ctx_lock: <<>> or <<c>>
    minted,          \* history: the leaf certificates minted so far, <<host, number>>
    h_serving,       \* the connection whose handler the server thread runs: <<>> or <<c>>
    h_pc,            \* where the handler of each connection is in do_CONNECT
    h_host,          \* the host each connection asked for
    h_ctx,           \* the context _get_ssl_context returned to each handler: <<>> or <<ctx>>
    \* ---- the sockets of one _relay call (src/ftl/proxy.py)
    t_pc,            \* "none", "select", "handle" (at recv), "send" (in sendall), "returned"
    t_ready,         \* the sockets select returned that the for loop has not handled yet
    t_why,           \* history: what ended the loop, "" while it runs
    sk_avail,        \* chunks that have arrived on each socket and are not read yet
    sk_peer,         \* the peer of each socket: "open", "closed" (it sent EOF), "reset"
    sk_open,         \* the proxy's end of each socket is open (not closed yet)
    \* ---- the interactive shell (src/ftl/cli.py)
    sh_pc,           \* "off", "prompt", the call in progress, "ended" or "raised"
    sh_session       \* the shell's variable session holds a Session object

proxyTable == <<swap_table>>
swapVars == <<data, result, swapDone>>
relayVars == <<cl_stream, cl_out, up_in, up_out, cl_in, relay>>
httpVars == <<req, up_req, resp>>
bootVars == <<cfile, flock, running, created, standby_id, boot_pc, existing_id,
              container_id, fresh, prev_id, solo>>
hostVars == <<dotenv, environ, config, crypto>>
startVars == <<s_pc, snapshot_id, shadow_env, proxy, proxy_running, agent_env,
               sandbox, parked, env_file, ca_installed, sb_fresh>>
workVars == <<agent, tester, test_code, tests_run, edits, workspace, diffs>>
keptVars == <<project, snapshots, logs, last>>
sessVars == <<hostVars, startVars, workVars, keptVars>>
serveVars == <<p_server, p_thread, loop, shutdown_request, busy, conn, reply, ended,
               up_sent, stop_pc, stops, at_stop>>
storeVars == <<backend, snap_dir, bucket, host, escaped, issued, deleted_ids,
              st_last>>
execVars == <<ex_pc, ex_call, ex_clock, ex_ret>>
certVars == <<ssl_ctx_cache, ssl_ctx_lock, minted, h_serving, h_pc, h_host, h_ctx>>
tunVars == <<t_pc, t_ready, t_why, sk_avail, sk_peer, sk_open>>
shellVars == <<sh_pc, sh_session>>
lateVars == <<execVars, certVars, tunVars, shellVars>>
\* What the actions of a session leave alone.
sessOthers == <<swapVars, relayVars, httpVars, bootVars, serveVars, storeVars, lateVars>>

-----------------------------------------------------------------------------
(* Byte strings *)

Byte == {"a", "b", "c"}

\* Longest buffer handed to _swap in SpecSwap.
MaxLen == 3

SeqsUpTo(S, n) == UNION {[1..k -> S] : k \in 0..n}

Min(S) == CHOOSE x \in S : \A y \in S : x <= y

\* Python's `pat in s` on bytes / str.
Contains(s, pat) ==
    \E i \in 1..(Len(s) - Len(pat) + 1) : SubSeq(s, i, i + Len(pat) - 1) = pat

StartsWith(s, pat) == Len(pat) <= Len(s) /\ SubSeq(s, 1, Len(pat)) = pat

\* Python's s.replace(old, new), old non-empty: the occurrences of old found
\* by a left-to-right scan that resumes after each match are replaced.
RECURSIVE Replace(_, _, _)
Replace(s, old, new) ==
    IF Len(s) < Len(old) THEN s
    ELSE IF StartsWith(s, old)
         THEN new \o Replace(SubSeq(s, Len(old) + 1, Len(s)), old, new)
         ELSE <<Head(s)>> \o Replace(Tail(s), old, new)

\* The loop of _swap from table entry i on.
RECURSIVE SwapFrom(_, _, _)
SwapFrom(table, i, s) ==
    IF i > Len(table) THEN s
    ELSE SwapFrom(table, i + 1,
                  IF Contains(s, table[i][1])
                  THEN Replace(s, table[i][1], table[i][2])
                  ELSE s)

\* A faulty _swap that returns after the first table entry found in the buffer.
RECURSIVE SwapFirstHit(_, _, _)
SwapFirstHit(table, i, s) ==
    IF i > Len(table) THEN s
    ELSE IF Contains(s, table[i][1])
         THEN Replace(s, table[i][1], table[i][2])
         ELSE SwapFirstHit(table, i + 1, s)

SwapBreaksEarly(s) == SwapFirstHit(swap_table, 1, s)

\* _ProxyHandler._swap
Swap(s) == SwapFrom(swap_table, 1, s)

\* _ProxyHandler._swap_str: the same loop on str.
SwapStr(s) == SwapFrom(swap_table, 1, s)

-----------------------------------------------------------------------------
(* Swap tables the model draws from *)

\* Shadow placeholders are never empty (they start with "ftl_shadow_").
Shadows == SeqsUpTo(Byte, 2) \ {<<>>}

\* A real value may be empty: load_real_keys takes shadow_env names from
\* os.environ whatever their value.
Reals == SeqsUpTo(Byte, 1)

\* A freshly minted placeholder is not the value it stands for.
Entries == {e \in Shadows \X Reals : e[1] # e[2]}

Tables ==
    {<<e>> : e \in Entries}
    \cup {t \in {<<e1, e2>> : e1 \in Entries, e2 \in Entries} : t[1][1] # t[2][1]}

ShadowsOf(table) == {table[i][1] : i \in 1..Len(table)}
RealsOf(table) == {table[i][2] : i \in 1..Len(table)}

\* x and y can share bytes: some occurrence of x can overlap, contain or lie
\* within some occurrence of y (an empty string lies within every string).
Touch(x, y) ==
    \/ Contains(x, y)
    \/ Contains(y, x)
    \/ \E k \in 1..Len(x) : k <= Len(y) /\ SubSeq(x, Len(x) - k + 1, Len(x)) = SubSeq(y, 1, k)
    \/ \E k \in 1..Len(y) : k <= Len(x) /\ SubSeq(y, Len(y) - k + 1, Len(y)) = SubSeq(x, 1, k)

\* No real value is empty or can share bytes with a placeholder, and no two
\* different placeholders can share bytes.
Separated(table) ==
    /\ \A p \in ShadowsOf(table), r \in RealsOf(table) : ~Touch(p, r)
    /\ \A p \in ShadowsOf(table), q \in ShadowsOf(table) : p # q => ~Touch(p, q)

\* The buffer with the placeholder occurrences replaced in place: one scan from
\* the left, a placeholder found at the current position gives its real value.
RECURSIVE InPlace(_, _)
InPlace(table, s) ==
    IF s = <<>> THEN <<>>
    ELSE LET hits == {i \in 1..Len(table) : StartsWith(s, table[i][1])}
         IN  IF hits = {} THEN <<Head(s)>> \o InPlace(table, Tail(s))
             ELSE table[Min(hits)][2]
                  \o InPlace(table, SubSeq(s, Len(table[Min(hits)][1]) + 1, Len(s)))

NoShadowIn(s) == \A p \in ShadowsOf(swap_table) : ~Contains(s, p)

-----------------------------------------------------------------------------
(* SpecSwap: _swap applied to one buffer *)

SwapInit ==
    /\ data \in SeqsUpTo(Byte, MaxLen)
    /\ result = <<>>
    /\ swapDone = FALSE

SwapIdle ==
    /\ data = <<>>
    /\ result = <<>>
    /\ swapDone = FALSE

CallSwap ==
    /\ ~swapDone
    /\ result' = Swap(data)
    /\ swapDone' = TRUE
    /\ UNCHANGED <<swap_table, data, relayVars, httpVars, bootVars, sessVars,
                   serveVars, storeVars, lateVars>>

RelayIdle ==
    /\ cl_stream = <<>>
    /\ cl_out = <<>>
    /\ up_in = <<>>
    /\ up_out = <<>>
    /\ cl_in = <<>>
    /\ relay = "closed"

HttpIdle ==
    /\ req = <<>>
    /\ up_req = <<>>
    /\ resp = <<>>

BootIdle ==
    /\ cfile = <<>>
    /\ flock = <<>>
    /\ running = {}
    /\ created = 0
    /\ standby_id = <<>>
    /\ boot_pc = <<>>
    /\ existing_id = <<>>
    /\ container_id = <<>>
    /\ fresh = <<>>
    /\ prev_id = <<>>
    /\ solo = <<>>

SessionIdle ==
    /\ dotenv = <<>>
    /\ environ = <<>>
    /\ config = <<>>
    /\ crypto = FALSE
    /\ s_pc = "none"
    /\ snapshot_id = <<>>
    /\ shadow_env = <<>>
    /\ proxy = FALSE
    /\ proxy_running = FALSE
    /\ agent_env = <<>>
    /\ sandbox = FALSE
    /\ parked = FALSE
    /\ env_file = <<>>
    /\ ca_installed = FALSE
    /\ sb_fresh = <<>>
    /\ agent = "idle"
    /\ tester = "idle"
    /\ test_code = "none"
    /\ tests_run = FALSE
    /\ edits = 0
    /\ workspace = <<>>
    /\ diffs = <<>>
    /\ project = <<>>
    /\ snapshots = <<>>
    /\ logs = <<>>
    /\ last = <<>>

ServeIdle ==
    /\ p_server = FALSE
    /\ p_thread = FALSE
    /\ loop = FALSE
    /\ shutdown_request = FALSE
    /\ busy = <<>>
    /\ conn = <<>>
    /\ reply = <<>>
    /\ ended = <<>>
    /\ up_sent = <<>>
    /\ stop_pc = "none"
    /\ stops = 0
    /\ at_stop = {}

StoreIdle ==
    /\ backend = "local"
    /\ snap_dir = <<>>
    /\ bucket = <<>>
    /\ host = <<>>
    /\ escaped = {}
    /\ issued = {}
    /\ deleted_ids = {}
    /\ st_last = <<>>

ExecIdle ==
    /\ ex_pc = "idle"
    /\ ex_call = <<>>
    /\ ex_clock = 0
    /\ ex_ret = <<>>

CertIdle ==
    /\ ssl_ctx_cache = <<>>
    /\ ssl_ctx_lock = <<>>
    /\ minted = {}
    /\ h_serving = <<>>
    /\ h_pc = <<>>
    /\ h_host = <<>>
    /\ h_ctx = <<>>

TunnelIdle ==
    /\ t_pc = "none"
    /\ t_ready = <<>>
    /\ t_why = ""
    /\ sk_avail = <<>>
    /\ sk_peer = <<>>
    /\ sk_open = <<>>

ShellIdle ==
    /\ sh_pc = "off"
    /\ sh_session = FALSE

LateIdle == ExecIdle /\ CertIdle /\ TunnelIdle /\ ShellIdle

vars == <<proxyTable, swapVars, relayVars, httpVars, bootVars, sessVars, serveVars,
          storeVars, lateVars>>

InitSwap == swap_table \in Tables /\ SwapInit /\ RelayIdle /\ HttpIdle /\ BootIdle /\ SessionIdle
    /\ ServeIdle /\ StoreIdle /\ LateIdle
NextSwap == CallSwap
SpecSwap == InitSwap /\ [][NextSwap]_vars

\* C3, for every table: for every buffer and every swap table, the result of _swap
\* holds no placeholder of the table and is the buffer with each occurrence of
\* a placeholder replaced in place by its real value.
C3_SwapEveryTable ==
    swapDone => NoShadowIn(result) /\ result = InPlace(swap_table, data)

\* C3, for separated tables: the same, for the tables whose real values are non-empty and
\* cannot share bytes with a placeholder and whose placeholders cannot share
\* bytes with one another.
C3_SwapSeparatedTable ==
    swapDone /\ Separated(swap_table)
        => NoShadowIn(result) /\ result = InPlace(swap_table, data)

\* A two-entry separated table, both placeholders in the buffer, swapped.
C3_Witness ==
    /\ swapDone
    /\ Len(swap_table) = 2
    /\ Separated(swap_table)
    /\ \A p \in ShadowsOf(swap_table) : Contains(data, p)
    /\ \A r \in RealsOf(swap_table) : Contains(result, r)

-----------------------------------------------------------------------------
(* SpecRelay: one CONNECT tunnel, from the entry of _relay to its end *)

\* sock.recv(65536)
RecvSize == 65536

\* Longest client stream, and most bytes upstream writes, in one tunnel.
MaxStream == 3

\* The tunnel's tables: one entry, separated, so that _swap of a whole buffer
\* is right.
RelayTables == {t \in Tables : Len(t) = 1 /\ Separated(t)}

\* What the upstream server can write of its own: it knows no real value of the
\* table unless the proxy sent it one.
OwnBytes == {bs \in {<<b>> : b \in Byte} :
                \A r \in RealsOf(swap_table) : ~Touch(bs, r)}

RelayInit ==
    /\ cl_stream \in SeqsUpTo(Byte, MaxStream)
    /\ cl_out = cl_stream
    /\ up_in = <<>>
    /\ up_out = <<>>
    /\ cl_in = <<>>
    /\ relay = "open"

\* The client socket is readable: recv returns the n bytes that have arrived,
\* they are swapped and sent upstream.
RelayFromClient(n) ==
    /\ relay = "open"
    /\ n <= RecvSize
    /\ n <= Len(cl_out)
    /\ up_in' = up_in \o Swap(SubSeq(cl_out, 1, n))
    /\ cl_out' = SubSeq(cl_out, n + 1, Len(cl_out))
    /\ UNCHANGED <<swap_table, cl_stream, up_out, cl_in, relay, swapVars, httpVars, bootVars, sessVars,
                   serveVars, storeVars, lateVars>>

\* The upstream socket is readable: the bytes go to the client as they are.
RelayFromUpstream(n) ==
    /\ relay = "open"
    /\ n <= RecvSize
    /\ n <= Len(up_out)
    /\ cl_in' = cl_in \o SubSeq(up_out, 1, n)
    /\ up_out' = SubSeq(up_out, n + 1, Len(up_out))
    /\ UNCHANGED <<swap_table, cl_stream, cl_out, up_in, relay, swapVars, httpVars, bootVars, sessVars,
                   serveVars, storeVars, lateVars>>

\* The upstream server answers: some bytes of its own, or the bytes it received.
UpstreamWrites(bs) ==
    /\ relay = "open"
    /\ bs # <<>>
    /\ Len(up_out) + Len(cl_in) + Len(bs) <= MaxStream
    /\ up_out' = up_out \o bs
    /\ UNCHANGED <<swap_table, cl_stream, cl_out, up_in, cl_in, relay, swapVars, httpVars, bootVars, sessVars,
                   serveVars, storeVars, lateVars>>

\* A side closed, recv or sendall failed, or select timed out: both sockets
\* are closed.
RelayEnds ==
    /\ relay = "open"
    /\ relay' = "closed"
    /\ UNCHANGED <<swap_table, cl_stream, cl_out, up_in, up_out, cl_in, swapVars, httpVars, bootVars, sessVars,
                   serveVars, storeVars, lateVars>>

InitRelay == swap_table \in RelayTables /\ RelayInit /\ SwapIdle /\ HttpIdle /\ BootIdle /\ SessionIdle
    /\ ServeIdle /\ StoreIdle /\ LateIdle
NextRelay ==
    \/ \E n \in 1..MaxStream : RelayFromClient(n)
    \/ \E n \in 1..MaxStream : RelayFromUpstream(n)
    \/ \E bs \in {up_in} \cup OwnBytes : UpstreamWrites(bs)
    \/ RelayEnds
SpecRelay == InitRelay /\ [][NextRelay]_vars

\* C2: however the client's bytes arrive in recv chunks, upstream never
\* receives a placeholder, and once the whole stream is relayed upstream has
\* received the stream with each placeholder replaced by its real value.
C2_RelaySwapsAnyChunking ==
    /\ NoShadowIn(up_in)
    /\ cl_out = <<>> => up_in = InPlace(swap_table, cl_stream)

\* C7: nothing the proxy writes to the client holds a real value of the table.
C7_NoRealToClient ==
    \A r \in RealsOf(swap_table) : ~Contains(cl_in, r)

-----------------------------------------------------------------------------
(* SpecHttp: one plain-HTTP request through _forward *)

\* Longest header value and longest body of the client's request.
MaxHeader == 1
MaxBody == 3

\* The request's tables: every one-entry table, and the separated two-entry ones.
HttpTables == {t \in Tables : Len(t) = 1 \/ Separated(t)}

\* str.lower() on the header names the model sends.
Lower(name) ==
    CASE name = "Host" -> "host"
      [] name = "Proxy-Connection" -> "proxy-connection"
      [] name = "Connection" -> "connection"
      [] name = "Authorization" -> "authorization"
      [] OTHER -> name

HopByHop == {"host", "proxy-connection", "connection", "content-length"}

\* headers[k] = v on a dict kept as a sequence of <<key, value>> pairs.
DictPut(d, k, v) ==
    IF \E i \in 1..Len(d) : d[i][1] = k
    THEN [i \in 1..Len(d) |-> IF d[i][1] = k THEN <<k, v>> ELSE d[i]]
    ELSE Append(d, <<k, v>>)

\* The header loop of _forward: hop-by-hop headers dropped, the values swapped.
RECURSIVE ForwardedHeaders(_)
ForwardedHeaders(hs) ==
    IF hs = <<>> THEN <<>>
    ELSE LET rest == ForwardedHeaders(SubSeq(hs, 1, Len(hs) - 1))
             h == hs[Len(hs)]
         IN  IF Lower(h[1]) \in HopByHop THEN rest
             ELSE DictPut(rest, h[1], SwapStr(h[2]))

\* The body _forward reads: Content-Length bytes when the header is there and
\* not empty, else nothing (a chunked body stays unread).
BodyRead(r) == IF r.clen = {} THEN <<>> ELSE r.body

\* The Content-Length upstream receives: the one _forward sets for a non-empty
\* body; with no body http.client sends 0 for a method that expects one.
ContentLengthSent(method, body) ==
    IF body # <<>> THEN {Len(body)}
    ELSE IF method \in {"POST", "PUT", "PATCH"} THEN {0} ELSE {}

\* The request handed to urlopen.
UpstreamRequest(r) ==
    LET body == Swap(BodyRead(r))
    IN  [method  |-> r.method,
         host    |-> r.host,
         path    |-> r.path,
         headers |-> ForwardedHeaders(r.headers),
         body    |-> body,
         clen    |-> ContentLengthSent(r.method, body)]

HeaderValues == SeqsUpTo(Byte, MaxHeader)

\* The client's requests. A body comes with a Content-Length header, or with
\* none, as a client that sends it chunked does.
Requests ==
    {r \in {[method  |-> m,
             host    |-> <<"c">>,
             path    |-> <<"a">>,
             headers |-> <<<<"Host", <<"c">>>>, <<"Proxy-Connection", <<"a">>>>>> \o hs,
             body    |-> b,
             clen    |-> c] :
               m \in {"GET", "POST"},
               hs \in {<<>>} \cup {<<<<"Authorization", v>>>> : v \in HeaderValues},
               b \in SeqsUpTo(Byte, MaxBody),
               c \in {{}} \cup {{n} : n \in 0..MaxBody}} :
        r.clen \subseteq {Len(r.body)}}

HttpInit ==
    /\ req \in Requests
    /\ up_req = <<>>
    /\ resp = <<>>

\* What an upstream server that got request u can answer with: bytes of its
\* own, the body it received, or a header value it received.
Answers(u) ==
    {<<"c">>, u.body} \cup {u.headers[i][2] : i \in 1..Len(u.headers)}

\* urlopen returns a response: status, headers and body are copied to the client.
ForwardAnswered(status, body) ==
    /\ resp = <<>>
    /\ up_req' = <<UpstreamRequest(req)>>
    /\ resp' = <<[status |-> status, body |-> body]>>
    /\ UNCHANGED <<swap_table, req, swapVars, relayVars, bootVars, sessVars,
                   serveVars, storeVars, lateVars>>

\* urlopen raises (upstream unreachable, timeout): send_error(502).
ForwardFailed ==
    /\ resp = <<>>
    /\ up_req' = <<>>
    /\ resp' = <<[status |-> 502, body |-> <<>>]>>
    /\ UNCHANGED <<swap_table, req, swapVars, relayVars, bootVars, sessVars,
                   serveVars, storeVars, lateVars>>

InitHttp == swap_table \in HttpTables /\ HttpInit /\ SwapIdle /\ RelayIdle /\ BootIdle /\ SessionIdle
    /\ ServeIdle /\ StoreIdle /\ LateIdle
NextHttp ==
    \/ \E status \in {200, 500} :
          \E body \in Answers(UpstreamRequest(req)) : ForwardAnswered(status, body)
    \/ ForwardFailed
SpecHttp == InitHttp /\ [][NextHttp]_vars

\* The header values and the body of the forwarded request hold no
\* placeholder, each is the client's with the placeholders replaced in place,
\* and Content-Length is the length of the forwarded body.
HttpSwapped(r, u) ==
    /\ NoShadowIn(u.body)
    /\ u.body = InPlace(swap_table, r.body)
    /\ \A i \in 1..Len(u.headers) : NoShadowIn(u.headers[i][2])
    /\ \A i \in 1..Len(r.headers) :
          Lower(r.headers[i][1]) \notin HopByHop
              => <<r.headers[i][1], InPlace(swap_table, r.headers[i][2])>>
                   \in {u.headers[j] : j \in 1..Len(u.headers)}
    /\ u.clen \subseteq {Len(u.body)}
    /\ u.body # <<>> => u.clen = {Len(u.body)}

\* C4: for every request the upstream server receives, the forwarded header
\* values and body carry the real values in place of the placeholders and no
\* placeholder, with a matching Content-Length; stated here for the tables
\* whose entries cannot share bytes, where _swap itself replaces in place.
C4_HttpSwapsHeadersAndBody ==
    up_req # <<>> /\ Separated(swap_table) => HttpSwapped(req, up_req[1])

-----------------------------------------------------------------------------
(* SpecBoot: boot() and standby() of sessions in two processes on one        *)
(* project path, on a host with fcntl (the lock is taken).                    *)

Procs == {1, 2}

\* Containers docker creates in one run of the model.
MaxContainers == 3

ProxyIdle == swap_table = <<>>

BootInit ==
    /\ cfile = <<>>
    /\ flock = <<>>
    /\ running = {}
    /\ created = 0
    /\ standby_id = [p \in Procs |-> <<>>]
    /\ boot_pc = [p \in Procs |-> "idle"]
    /\ existing_id = [p \in Procs |-> <<>>]
    /\ container_id = [p \in Procs |-> <<>>]
    /\ fresh = [p \in Procs |-> FALSE]
    /\ prev_id = <<>>
    /\ solo = [p \in Procs |-> TRUE]

\* A docker that reports every container as stopped.
NeverAlive(c) == FALSE

\* _is_alive
IsAlive(c) == c \in running

\* The process is between the first and the last statement of boot().
InBoot(p) == boot_pc[p] \notin {"idle", "active"}

bootOthers == <<proxyTable, swapVars, relayVars, httpVars, sessVars, serveVars,
               storeVars, lateVars>>

\* boot() is called on a sandbox that holds no container; flock(LOCK_EX) is
\* granted.
BootLock(p) ==
    /\ boot_pc[p] = "idle"
    /\ container_id[p] = <<>>
    /\ flock = <<>>
    /\ flock' = <<p>>
    /\ existing_id' = [existing_id EXCEPT ![p] = <<>>]
    /\ boot_pc' = [boot_pc EXCEPT ![p] = "locked"]
    /\ solo' = [q \in Procs |->
                   IF q = p THEN \A o \in Procs \ {p} : ~InBoot(o)
                   ELSE solo[q] /\ ~InBoot(q)]
    /\ UNCHANGED <<cfile, running, created, standby_id, container_id, fresh, prev_id,
                   bootOthers>>

\* Under the lock: the record is read; a running container is claimed, and the
\* record is unlinked whether it was claimed or stale.
BootCheckDisk(p) ==
    /\ boot_pc[p] = "locked"
    /\ IF cfile # <<>>
       THEN /\ existing_id' = [existing_id EXCEPT
                                  ![p] = IF IsAlive(cfile[1]) THEN cfile ELSE <<>>]
            /\ cfile' = <<>>
       ELSE UNCHANGED <<existing_id, cfile>>
    /\ boot_pc' = [boot_pc EXCEPT ![p] = "unlock"]
    /\ UNCHANGED <<flock, running, created, standby_id, container_id, fresh, prev_id, solo, bootOthers>>

\* finally: flock(LOCK_UN)
BootUnlock(p) ==
    /\ boot_pc[p] = "unlock"
    /\ flock' = <<>>
    /\ boot_pc' = [boot_pc EXCEPT ![p] = "standby"]
    /\ UNCHANGED <<cfile, running, created, standby_id, existing_id, container_id,
                   fresh, prev_id, solo, bootOthers>>

\* Nothing claimed from disk: the process's standby container, if it runs.
BootCheckStandby(p) ==
    /\ boot_pc[p] = "standby"
    /\ IF existing_id[p] = <<>> /\ standby_id[p] # <<>> /\ IsAlive(standby_id[p][1])
       THEN /\ existing_id' = [existing_id EXCEPT ![p] = standby_id[p]]
            /\ standby_id' = [standby_id EXCEPT ![p] = <<>>]
       ELSE UNCHANGED <<existing_id, standby_id>>
    /\ boot_pc' = [boot_pc EXCEPT ![p] = "attach"]
    /\ UNCHANGED <<cfile, flock, running, created, container_id, fresh, prev_id, solo, bootOthers>>

\* The claimed container is reused and its workspace wiped and refilled.
BootReuse(p) ==
    /\ boot_pc[p] = "attach"
    /\ existing_id[p] # <<>>
    /\ IsAlive(existing_id[p][1])
    /\ fresh' = [fresh EXCEPT ![p] = FALSE]
    /\ container_id' = [container_id EXCEPT ![p] = existing_id[p]]
    /\ boot_pc' = [boot_pc EXCEPT ![p] = "persist"]
    /\ UNCHANGED <<cfile, flock, running, created, standby_id, existing_id, prev_id, solo, bootOthers>>

\* The claimed container stopped in the meantime: _init_workspace raises out of
\* boot() and start(); the session and its sandbox object are dropped, and the
\* process's next session begins with a sandbox that holds nothing.
BootReuseFails(p) ==
    /\ boot_pc[p] = "attach"
    /\ existing_id[p] # <<>>
    /\ ~IsAlive(existing_id[p][1])
    /\ fresh' = [fresh EXCEPT ![p] = FALSE]
    /\ container_id' = [container_id EXCEPT ![p] = <<>>]
    /\ boot_pc' = [boot_pc EXCEPT ![p] = "idle"]
    /\ UNCHANGED <<cfile, flock, running, created, standby_id, existing_id, prev_id, solo, bootOthers>>

\* Nothing to reuse: _create() runs a new container.
BootCreate(p) ==
    /\ boot_pc[p] = "attach"
    /\ existing_id[p] = <<>>
    /\ created < MaxContainers
    /\ created' = created + 1
    /\ running' = running \cup {created + 1}
    /\ fresh' = [fresh EXCEPT ![p] = TRUE]
    /\ container_id' = [container_id EXCEPT ![p] = <<created + 1>>]
    /\ boot_pc' = [boot_pc EXCEPT ![p] = "persist"]
    /\ UNCHANGED <<cfile, flock, standby_id, existing_id, prev_id, solo, bootOthers>>

\* The container id is written to the record (outside the lock); the env file
\* is written and boot() returns.
BootPersist(p) ==
    /\ boot_pc[p] = "persist"
    /\ cfile' = container_id[p]
    /\ boot_pc' = [boot_pc EXCEPT ![p] = "active"]
    /\ prev_id' = container_id[p]
    /\ UNCHANGED <<flock, running, created, standby_id, existing_id, container_id,
                   fresh, solo, bootOthers>>

\* standby(): the container goes to the process's standby slot.
Standby(p) ==
    /\ boot_pc[p] = "active"
    /\ standby_id' = [standby_id EXCEPT ![p] = container_id[p]]
    /\ container_id' = [container_id EXCEPT ![p] = <<>>]
    /\ boot_pc' = [boot_pc EXCEPT ![p] = "idle"]
    /\ UNCHANGED <<cfile, flock, running, created, existing_id, fresh, prev_id, solo, bootOthers>>

\* The process exits outside boot(): _cleanup_on_exit clears the references
\* it holds in memory and leaves the containers running.  The next process
\* takes its place.
ProcessExits(p) ==
    /\ ~InBoot(p)
    /\ container_id[p] # <<>> \/ standby_id[p] # <<>>
    /\ container_id' = [container_id EXCEPT ![p] = <<>>]
    /\ standby_id' = [standby_id EXCEPT ![p] = <<>>]
    /\ boot_pc' = [boot_pc EXCEPT ![p] = "idle"]
    /\ UNCHANGED <<cfile, flock, running, created, existing_id, fresh, prev_id, solo,
                   bootOthers>>

\* A container stops (docker stop, a crash, a reboot of the host).
ContainerStops(c) ==
    /\ c \in running
    /\ running' = running \ {c}
    /\ UNCHANGED <<cfile, flock, created, standby_id, boot_pc, existing_id,
                   container_id, fresh, prev_id, solo, bootOthers>>

InitBoot == BootInit /\ ProxyIdle /\ SwapIdle /\ RelayIdle /\ HttpIdle /\ SessionIdle
    /\ ServeIdle /\ StoreIdle /\ LateIdle
NextBoot ==
    \/ \E p \in Procs : BootLock(p)
    \/ \E p \in Procs : BootCheckDisk(p)
    \/ \E p \in Procs : BootUnlock(p)
    \/ \E p \in Procs : BootCheckStandby(p)
    \/ \E p \in Procs : BootReuse(p)
    \/ \E p \in Procs : BootReuseFails(p)
    \/ \E p \in Procs : BootCreate(p)
    \/ \E p \in Procs : BootPersist(p)
    \/ \E p \in Procs : Standby(p)
    \/ \E p \in Procs : ProcessExits(p)
    \/ \E c \in 1..MaxContainers : ContainerStops(c)
SpecBoot == InitBoot /\ [][NextBoot]_vars

\* C1: two sessions on the same project never hold the same container, and so
\* two boots that both returned gave distinct container ids.
C1_NoSharedContainer ==
    \A p \in Procs, q \in Procs :
        p # q /\ container_id[p] # <<>> => container_id[p] # container_id[q]

\* C11: of two boot() calls on one project that run one after the other with
\* no other boot() in between, the first (no container known yet) returns with
\* fresh true, and the second, when the container the first returned still
\* runs, returns that same container id with fresh false.
C11_SecondBootReusesFirst ==
    [][\A p \in Procs :
          boot_pc[p] = "persist" /\ boot_pc'[p] = "active" /\ solo[p]
          => /\ prev_id = <<>> => fresh[p]
             /\ prev_id # <<>> /\ prev_id[1] \in running
                => container_id[p] = prev_id /\ ~fresh[p]]_vars

\* The second of two sequential boots has returned with the first one's
\* container.
C11_Witness ==
    \E p \in Procs :
        /\ boot_pc[p] = "active" /\ solo[p] /\ ~fresh[p]
        /\ created = 1 /\ container_id[p] = <<1>> /\ prev_id = <<1>>

\* C33: every running container is referenced: by a session (the sandbox
\* that holds it, or the boot() that has just claimed it), by the standby slot
\* of a process, or by the record of the project on disk.
C33_NoOrphanContainer ==
    \A c \in running :
        \/ cfile = <<c>>
        \/ \E p \in Procs :
               \/ container_id[p] = <<c>>
               \/ standby_id[p] = <<c>>
               \/ InBoot(p) /\ existing_id[p] = <<c>>

-----------------------------------------------------------------------------
(* SpecEnv: the first half of Session.start(), from the snapshot to the env   *)
(* file that boot() writes into the container, for every .env, os.environ,    *)
(* agent and config of the bounded sets below (local mode: no Secrets         *)
(* Manager prefix).                                                           *)

EnvNames == {"ANTHROPIC_API_KEY", "STRIPE_KEY"}

\* The order in which the .env file and the config lists name the variables.
NameOrder == <<"ANTHROPIC_API_KEY", "STRIPE_KEY">>

\* str.lower() on the variable names of the model.
LowerName(name) ==
    CASE name = "ANTHROPIC_API_KEY" -> "anthropic_api_key"
      [] name = "STRIPE_KEY" -> "stripe_key"
      [] OTHER -> name

\* Values of variables: a real value is tagged with where it comes from.
Val(x) == <<"value", x>>
EmptyVal == Val("")
FileVal == Val("from .env")
HostVal == Val("from os.environ")

\* The outcomes of secrets.token_hex(8) the model tells apart.
Tokens == {"t1", "t2"}

SHADOW_PREFIX == "ftl_shadow_"

generate_shadow_key(name, token) == <<SHADOW_PREFIX, LowerName(name), token>>

IsPlaceholder(v) == v[1] = SHADOW_PREFIX

AGENT_AUTH_VARS(agent_name) ==
    CASE agent_name = "claude-code" -> {"ANTHROPIC_API_KEY"}
      [] agent_name = "kiro" -> {"KIRO_API_KEY", "AWS_ACCESS_KEY_ID",
                                 "AWS_SECRET_ACCESS_KEY", "AWS_DEFAULT_REGION"}
      [] agent_name = "codex" -> {"OPENAI_API_KEY"}
      [] agent_name = "aider" -> {"OPENAI_API_KEY", "ANTHROPIC_API_KEY"}
      [] OTHER -> {}

\* A table that requires no key of any agent.
NoRequiredKey(agent_name) == {}

\* The key start() requires for the agent, as a set of zero or one name.
AGENT_REQUIRED_KEY(agent_name) ==
    CASE agent_name = "claude-code" -> {"ANTHROPIC_API_KEY"}
      [] agent_name = "codex" -> {"OPENAI_API_KEY"}
      [] OTHER -> {}

\* {**a, **b}, and a.update(b): b's value wins for a name in both.
DictMerge(a, b) ==
    [k \in DOMAIN a \cup DOMAIN b |-> IF k \in DOMAIN b THEN b[k] ELSE a[k]]

\* Every non-empty .env value, then each extra name found in os.environ.
load_real_keys(extra_vars) ==
    LET fromFile == {k \in DOMAIN dotenv : dotenv[k] # EmptyVal}
        fromHost == {k \in extra_vars : k \notin fromFile /\ k \in DOMAIN environ}
    IN  [k \in fromFile \cup fromHost |-> IF k \in fromFile THEN dotenv[k] ELSE environ[k]]

_collect_agent_env(agent_name) ==
    LET keys == {k \in AGENT_AUTH_VARS(agent_name) \cup config.agent_env :
                     k \in DOMAIN environ}
    IN  [k \in keys |-> environ[k]]

ProxyUrl == Val("http://host.docker.internal:port")
NoProxyList == Val("localhost,127.0.0.1,::1")

\* CredentialSwapProxy.env_vars
env_vars ==
    [k \in {"HTTP_PROXY", "HTTPS_PROXY", "http_proxy", "https_proxy", "NO_PROXY", "no_proxy"}
        |-> IF k \in {"NO_PROXY", "no_proxy"} THEN NoProxyList ELSE ProxyUrl]

RECURSIVE TableOf(_, _, _)
\* The swap table of build_shadow_map: one <<placeholder, real value>> entry
\* per real key, in the order of the names.
TableOf(names, shadows, reals) ==
    IF names = <<>> THEN <<>>
    ELSE IF Head(names) \in DOMAIN reals
         THEN <<<<shadows[Head(names)], reals[Head(names)]>>>>
                  \o TableOf(Tail(names), shadows, reals)
         ELSE TableOf(Tail(names), shadows, reals)

Last(op, path) == [op |-> op, path |-> path]

\* 1. snapshot_store.create(project_path)
Snapshot ==
    /\ s_pc = "new"
    /\ snapshots' = Append(snapshots, project)
    /\ snapshot_id' = <<Len(snapshots) + 1>>
    /\ s_pc' = "snapshot"
    /\ last' = Last("start", "snapshot")
    /\ UNCHANGED <<swap_table, hostVars, shadow_env, proxy, proxy_running, agent_env,
                   sandbox, parked, env_file, ca_installed, workVars, project, logs>>
    /\ UNCHANGED <<sessOthers, sb_fresh>>

\* 2. build_shadow_map: a fresh placeholder for every real key.
BuildShadowMap(tok) ==
    /\ s_pc = "snapshot"
    /\ LET real_keys == load_real_keys(config.shadow_env)
           shadows == [k \in DOMAIN real_keys |-> generate_shadow_key(k, tok[k])]
       IN  /\ shadow_env' = shadows
           /\ swap_table' = TableOf(NameOrder, shadows, real_keys)
    /\ s_pc' = "shadow"
    /\ last' = Last("start", "shadow")
    /\ UNCHANGED <<hostVars, snapshot_id, proxy, proxy_running, agent_env, sandbox,
                   parked, env_file, ca_installed, workVars, project, snapshots, logs>>
    /\ UNCHANGED <<sessOthers, sb_fresh>>

\* _try_start_proxy: no proxy for an empty table or without cryptography.
TryStartProxy ==
    /\ s_pc = "shadow"
    /\ proxy' = (swap_table # <<>> /\ crypto)
    /\ proxy_running' = (swap_table # <<>> /\ crypto)
    /\ s_pc' = "proxy"
    /\ last' = Last("start", "proxy")
    /\ UNCHANGED <<swap_table, hostVars, snapshot_id, shadow_env, agent_env, sandbox,
                   parked, env_file, ca_installed, workVars, project, snapshots, logs>>
    /\ UNCHANGED <<sessOthers, sb_fresh>>

\* 3. _collect_agent_env, the check of the agent's key (SystemExit when it is
\* missing), and the proxy routing variables.
CollectAgentEnv ==
    /\ s_pc = "proxy"
    /\ LET collected == _collect_agent_env(config.agent)
           missing ==
               \/ ~(AGENT_REQUIRED_KEY(config.agent) \subseteq DOMAIN collected)
               \/ /\ config.agent = "aider"
                  /\ DOMAIN collected \cap {"OPENAI_API_KEY", "ANTHROPIC_API_KEY"} = {}
       IN  IF missing
           THEN /\ s_pc' = "exit"
                /\ agent_env' = collected
           ELSE /\ s_pc' = "env"
                /\ agent_env' = IF proxy THEN DictMerge(collected, env_vars) ELSE collected
    /\ last' = Last("start", "env")
    /\ UNCHANGED <<swap_table, hostVars, snapshot_id, shadow_env, proxy, proxy_running,
                   sandbox, parked, env_file, ca_installed, workVars, project,
                   snapshots, logs>>
    /\ UNCHANGED <<sessOthers, sb_fresh>>

\* _init_workspace: one shell line, "find -delete; cp -a; rm -f .ftl_meta;
\* chown", run with sh -c.  The commands are joined with ";", so each runs
\* whatever became of the one before.  cp_ok says whether cp copied the
\* snapshot; when it did not, the workspace is what the wipe left.
_init_workspace(ws, snap, wipe, cp_ok) ==
    LET wiped == IF wipe THEN <<>> ELSE ws
    IN  IF cp_ok THEN DictMerge(wiped, snap) ELSE wiped

\* 4. sandbox.boot(credentials=shadow_env, agent_env=agent_env) returns: the
\* project's container is reused if there is one (fresh is false, the
\* workspace is wiped), else created; the workspace is filled from the
\* snapshot and the env file is written.  The exit status of the shell line
\* is that of its last command, chown, so boot() returns whether or not cp
\* succeeded.  The model lets cp fail on a reused container only (a new
\* container has just mounted the snapshot directory).
StartBoot(cp_ok) ==
    /\ s_pc = "env"
    /\ cp_ok \/ sb_fresh # <<>>
    /\ sandbox' = TRUE
    /\ parked' = FALSE
    /\ sb_fresh' = <<sb_fresh = <<>>>>
    /\ workspace' = _init_workspace(workspace, snapshots[snapshot_id[1]],
                                    sb_fresh # <<>>, cp_ok)
    /\ env_file' = DictMerge(shadow_env, agent_env)
    /\ s_pc' = "booted"
    /\ last' = Last("start", "boot")
    /\ UNCHANGED <<swap_table, hostVars, snapshot_id, shadow_env, proxy, proxy_running,
                   agent_env, ca_installed, agent, tester, test_code, tests_run, edits,
                   diffs, project, snapshots, logs>>
    /\ UNCHANGED sessOthers

\* 4. sandbox.boot raises: docker run fails (CalledProcessError out of
\* _create), _init_workspace raises RuntimeError, or the setup command times
\* out.  Session.sandbox was assigned before the call; start() has no handler,
\* so the exception leaves it with the proxy as it is.
StartBootRaises ==
    /\ s_pc = "env"
    /\ sandbox' = TRUE
    /\ s_pc' = "failed"
    /\ last' = Last("start", "raised")
    /\ UNCHANGED <<swap_table, hostVars, snapshot_id, shadow_env, proxy, proxy_running,
                   agent_env, parked, env_file, ca_installed, workVars, project,
                   snapshots, logs>>
    /\ UNCHANGED <<sessOthers, sb_fresh>>

\* The hosts of the model: what .env and os.environ may hold, and the config.
Dotenvs == UNION {[S -> {FileVal, EmptyVal}] : S \in SUBSET EnvNames}
Environs == UNION {[S -> {HostVal, EmptyVal}] : S \in SUBSET EnvNames}
Agents == {"claude-code", "codex", "aider", "kiro"}
NameLists == {S \in SUBSET EnvNames : Cardinality(S) <= 1}
Configs == [agent : Agents, shadow_env : NameLists, agent_env : NameLists,
            guardrail_id : {FALSE}]

SessionNew ==
    /\ s_pc = "new"
    /\ snapshot_id = <<>>
    /\ shadow_env = <<>>
    /\ proxy = FALSE
    /\ proxy_running = FALSE
    /\ agent_env = <<>>
    /\ sandbox = FALSE
    /\ parked = FALSE
    /\ env_file = <<>>
    /\ ca_installed = FALSE
    /\ sb_fresh = <<>>
    /\ agent = "idle"
    /\ tester = "idle"
    /\ test_code = "none"
    /\ tests_run = FALSE
    /\ edits = 0
    /\ workspace = <<>>
    /\ diffs = <<>>
    /\ snapshots = <<>>
    /\ logs = <<>>
    /\ last = Last("init", "none")

InitEnv ==
    /\ dotenv \in Dotenvs
    /\ environ \in Environs
    /\ config \in Configs
    /\ crypto \in BOOLEAN
    /\ project = <<>>
    /\ SessionNew
    /\ ProxyIdle /\ SwapIdle /\ RelayIdle /\ HttpIdle /\ BootIdle /\ ServeIdle /\ StoreIdle /\ LateIdle
NextEnv ==
    \/ Snapshot
    \/ \E tok \in [EnvNames -> Tokens] : BuildShadowMap(tok)
    \/ TryStartProxy
    \/ CollectAgentEnv
    \/ \E cp_ok \in BOOLEAN : StartBoot(cp_ok)
    \/ StartBootRaises
SpecEnv == InitEnv /\ [][NextEnv]_vars

\* The key the configured agent needs is not set in os.environ: claude-code
\* needs ANTHROPIC_API_KEY, codex OPENAI_API_KEY, aider one of the two.
RequiredKeyAbsent ==
    \/ config.agent = "claude-code" /\ "ANTHROPIC_API_KEY" \notin DOMAIN environ
    \/ config.agent = "codex" /\ "OPENAI_API_KEY" \notin DOMAIN environ
    \/ /\ config.agent = "aider"
       /\ "OPENAI_API_KEY" \notin DOMAIN environ
       /\ "ANTHROPIC_API_KEY" \notin DOMAIN environ

\* C29: when the key the configured agent requires is absent from the host
\* environment, start() gets no further than the check of the key, where it
\* exits: no sandbox object is created, boot() is never called (no container
\* is looked up, reused or created), no env file and no workspace is written.
C29_MissingKeyExitsBeforeBoot ==
    RequiredKeyAbsent
        => /\ s_pc \in {"new", "snapshot", "shadow", "proxy", "exit"}
           /\ ~sandbox
           /\ sb_fresh = <<>>
           /\ env_file = <<>>
           /\ workspace = <<>>
           /\ ~parked

\* start() has exited at the check of the key, after the snapshot and the
\* shadow map.
C29_Witness ==
    /\ RequiredKeyAbsent
    /\ s_pc = "exit"
    /\ snapshot_id # <<>>
    /\ last = Last("start", "env")

\* C6: once boot has written the env file, every name loaded as a project
\* secret is exported as its shadow placeholder.
C6_SecretsExportedAsShadow ==
    s_pc = "booted" =>
        \A k \in DOMAIN shadow_env : env_file[k] = shadow_env[k]

\* C15: when start() has ended on a fatal error after the proxy was started or
\* the sandbox was created (the required agent key is missing, boot raised),
\* the proxy is stopped and the session holds no sandbox.
C15_FailedStartCleansUp ==
    s_pc \in {"exit", "failed"} => ~proxy_running /\ ~sandbox

-----------------------------------------------------------------------------
(* SpecSession: sessions of one shell, one after the other, on one project:   *)
(* start() to its end, then follow_up / show_diff / merge / reject.  start()  *)
(* does nothing with the way agent.run ended but print it: SpecSession        *)
(* follows the agent's clean exit, SpecStart every outcome.                   *)

Paths == {"app.py", "conf.json"}

\* File operations of the agents in one run of the model (a run has up to
\* MaxSessions sessions).
MaxEdits == 1

\* Sessions the shell opens in one run of the model.
MaxSessions == 2

\* A file is a sequence of lines; a line is ordinary text or a placeholder.
Text(x) == <<"text", x, "">>
OldFile == <<Text("v0")>>
NewFiles(shadows) ==
    {<<Text("v1")>>} \cup {<<Text("v1"), shadows[k]>> : k \in DOMAIN shadows}

LinesOf(content) == {content[i] : i \in 1..Len(content)}
HasPlaceholder(content) == \E l \in LinesOf(content) : IsPlaceholder(l)

\* lint.py SKIP_EXTENSIONS, on the paths of the model.
SkipExtension(path) == path = "conf.json"

\* def write_log(entry) has one parameter; every call in orchestrator.py
\* passes the keyword trace_id as well, which Python answers with TypeError
\* before the body runs.
LogParameters == {"entry"}
LogCallArguments == {"entry", "trace_id"}
WriteLogRaises == ~(LogCallArguments \subseteq LogParameters)

\* A file that does not end with a newline carries this mark as its last
\* element; every other line ends with "\n".
NoNewline == <<"no newline at end of file", "", "">>

\* bytes.decode().splitlines() and Path.read_text().splitlines(): the lines
\* without their terminators.
splitlines(content) == SelectSeq(content, LAMBDA l : l # NoNewline)

\* _should_ignore_in_diff and skip() of the in-container script, on the paths
\* of the model.
_should_ignore_in_diff(path) == path = "node_modules/m.js"

\* The script get_diff runs in the container: the paths present on one side
\* only, and those whose md5 digests differ.
OverlayChanges(ws, snap) ==
    LET seen(t) == {p \in DOMAIN t : ~_should_ignore_in_diff(p)}
    IN  {p \in seen(ws) \cup seen(snap) :
            p \notin DOMAIN ws \/ p \notin DOMAIN snap \/ ws[p] # snap[p]}

\* sandbox.get_diff + compute_diff_from_overlay: one entry per path of the
\* overlay, with the new bytes and the added lines; a modified file whose
\* lines equal the snapshot's lines gets no entry.
ComputeDiff(ws, snap) ==
    LET changed == {p \in OverlayChanges(ws, snap) :
                        p \in DOMAIN ws /\ p \in DOMAIN snap
                        => splitlines(ws[p]) # splitlines(snap[p])}
    IN  [p \in changed |->
            IF p \notin DOMAIN ws
            THEN [status |-> "deleted", content |-> <<>>, added |-> {}]
            ELSE [status |-> IF p \in DOMAIN snap THEN "modified" ELSE "created",
                  content |-> ws[p],
                  added |-> LinesOf(splitlines(ws[p])) \
                            (IF p \in DOMAIN snap
                             THEN LinesOf(splitlines(snap[p])) ELSE {})]]

\* Session._get_diffs: the cached diffs, computed on first use while a
\* sandbox is attached.
GetDiffs ==
    IF diffs = <<>> /\ sandbox
    THEN <<ComputeDiff(workspace, snapshots[snapshot_id[1]])>>
    ELSE diffs

\* lint_diffs: the paths with an added line that holds a shadow value.
lint_diffs(d) ==
    {p \in DOMAIN d : /\ ~SkipExtension(p)
                      /\ \E l \in d[p].added : IsPlaceholder(l)}

\* _merge_changes: created and modified files are written, deleted ones
\* unlinked.
MergeChanges(d, tree) ==
    LET written == {p \in DOMAIN d : d[p].status # "deleted"}
        deleted == {p \in DOMAIN d : d[p].status = "deleted"}
    IN  [p \in (DOMAIN tree \cup written) \ deleted |->
            IF p \in written THEN d[p].content ELSE tree[p]]

\* A faulty merge that writes the changes back whatever the review said.
MergedWhateverReview(approved, d, tree) == MergeChanges(d, tree)

\* merge() after review_diff returned.
MergedTree(approved, d, tree) == IF approved THEN MergeChanges(d, tree) ELSE tree

\* How agent.run ends: exit status 0, another exit status, an exception.
AgentEnded == {"done", "failed", "raised"}

\* A faulty join that waits for the tester only.
TesterJoined == tester = "done"

\* Leaving the ThreadPoolExecutor block waits for both workers.
WorkersJoined == agent \in AgentEnded /\ tester = "done"

\* Session._cleanup
Cleanup ==
    /\ parked' = (sandbox \/ parked)
    /\ proxy_running' = (proxy_running /\ ~proxy)
    /\ proxy' = FALSE
    /\ sandbox' = FALSE
    /\ diffs' = <<>>
    /\ shadow_env' = <<>>

\* proxy.install_ca_in_container, when there is a proxy.
InstallCA ==
    /\ s_pc = "booted"
    /\ ca_installed' = proxy
    /\ s_pc' = "ready"
    /\ last' = Last("start", "ca")
    /\ UNCHANGED <<swap_table, hostVars, snapshot_id, shadow_env, proxy, proxy_running,
                   agent_env, sandbox, parked, env_file, workVars, project, snapshots, logs>>
    /\ UNCHANGED <<sessOthers, sb_fresh>>

\* 5. executor.submit(_run_agent)
SubmitAgent ==
    /\ s_pc = "ready"
    /\ agent' = "running"
    /\ s_pc' = "agent_submitted"
    /\ last' = Last("start", "agent")
    /\ UNCHANGED <<swap_table, hostVars, snapshot_id, shadow_env, proxy, proxy_running,
                   agent_env, sandbox, parked, env_file, ca_installed, tester, test_code,
                   tests_run, edits, workspace, diffs, project, snapshots, logs>>
    /\ UNCHANGED <<sessOthers, sb_fresh>>

\* executor.submit(generate_tests_from_task, ...)
SubmitTester ==
    /\ s_pc = "agent_submitted"
    /\ tester' = "running"
    /\ s_pc' = "forked"
    /\ last' = Last("start", "tester")
    /\ UNCHANGED <<swap_table, hostVars, snapshot_id, shadow_env, proxy, proxy_running,
                   agent_env, sandbox, parked, env_file, ca_installed, agent, test_code,
                   tests_run, edits, workspace, diffs, project, snapshots, logs>>
    /\ UNCHANGED <<sessOthers, sb_fresh>>

\* The agent writes a file in /workspace; it can read its env, so a line may
\* be one of the placeholders.
AgentWrites(path, content) ==
    /\ agent = "running"
    /\ edits < MaxEdits
    /\ edits' = edits + 1
    /\ workspace' = [p \in DOMAIN workspace \cup {path} |->
                        IF p = path THEN content ELSE workspace[p]]
    /\ UNCHANGED <<swap_table, hostVars, startVars, agent, tester, test_code, tests_run,
                   diffs, keptVars>>
    /\ UNCHANGED <<sessOthers, sb_fresh>>

AgentDeletes(path) ==
    /\ agent = "running"
    /\ edits < MaxEdits
    /\ path \in DOMAIN workspace
    /\ edits' = edits + 1
    /\ workspace' = [p \in DOMAIN workspace \ {path} |-> workspace[p]]
    /\ UNCHANGED <<swap_table, hostVars, startVars, agent, tester, test_code, tests_run,
                   diffs, keptVars>>
    /\ UNCHANGED <<sessOthers, sb_fresh>>

\* agent.run returns or raises; start() prints the error and goes on.
AgentFinishes(out) ==
    /\ agent = "running"
    /\ s_pc \in {"agent_submitted", "forked"}
    /\ agent' = out
    /\ UNCHANGED <<swap_table, hostVars, startVars, tester, test_code, tests_run, edits,
                   workspace, diffs, keptVars>>
    /\ UNCHANGED <<sessOthers, sb_fresh>>

\* generate_tests_from_task returns test code, returns nothing, or raises.
TesterFinishes(out) ==
    /\ tester = "running"
    /\ tester' = "done"
    /\ test_code' = out
    /\ UNCHANGED <<swap_table, hostVars, startVars, agent, tests_run, edits, workspace,
                   diffs, keptVars>>
    /\ UNCHANGED <<sessOthers, sb_fresh>>

\* End of the with-block, then agent_future.result().
Join ==
    /\ s_pc = "forked"
    /\ WorkersJoined
    /\ s_pc' = "joined"
    /\ last' = Last("start", "joined")
    /\ UNCHANGED <<swap_table, hostVars, snapshot_id, shadow_env, proxy, proxy_running,
                   agent_env, sandbox, parked, env_file, ca_installed, workVars, project,
                   snapshots, logs>>
    /\ UNCHANGED <<sessOthers, sb_fresh>>

\* 6. test_future.result() re-raises the tester's exception out of start();
\* otherwise the generated tests, if any, run in the sandbox.
RunTests ==
    /\ s_pc = "joined"
    /\ IF test_code = "raised"
       THEN /\ s_pc' = "open"
            /\ last' = Last("start", "raised")
            /\ UNCHANGED tests_run
       ELSE /\ s_pc' = "tested"
            /\ last' = Last("start", "tests")
            /\ tests_run' = (test_code = "code")
    /\ UNCHANGED <<swap_table, hostVars, snapshot_id, shadow_env, proxy, proxy_running,
                   agent_env, sandbox, parked, env_file, ca_installed, agent, tester,
                   test_code, edits, workspace, diffs, project, snapshots, logs>>
    /\ UNCHANGED <<sessOthers, sb_fresh>>

\* write_log({"event": "session_start", ...}, trace_id=...) ends start().
StartLog ==
    /\ s_pc = "tested"
    /\ s_pc' = "open"
    /\ IF WriteLogRaises
       THEN /\ logs' = logs
            /\ last' = Last("start", "raised")
       ELSE /\ logs' = Append(logs, <<Text("session_start")>>)
            /\ last' = Last("start", "returned")
    /\ UNCHANGED <<swap_table, hostVars, snapshot_id, shadow_env, proxy, proxy_running,
                   agent_env, sandbox, parked, env_file, ca_installed, workVars, project,
                   snapshots>>
    /\ UNCHANGED <<sessOthers, sb_fresh>>

\* show_diff()
ShowDiff ==
    /\ s_pc = "open"
    /\ diffs' = GetDiffs
    /\ last' = Last("show_diff", "shown")
    /\ UNCHANGED <<swap_table, hostVars, startVars, agent, tester, test_code, tests_run,
                   edits, workspace, project, snapshots, logs>>
    /\ UNCHANGED <<sessOthers, sb_fresh>>

\* run_tests(): without a sandbox only a message is printed; with one the
\* diffs are fetched and, if there are any, run_verification runs on them.
\* A tester that is a model has its test file written, run and removed; a
\* tester that is an agent works in /workspace as agent.run does, and writes
\* says whether it left a file of tests at path.
ManualTests(path, writes) ==
    /\ s_pc = "open"
    /\ writes => /\ sandbox
                 /\ GetDiffs # <<>> /\ DOMAIN GetDiffs[1] # {}
                 /\ edits < MaxEdits
    /\ diffs' = IF sandbox THEN GetDiffs ELSE diffs
    /\ last' = Last("run_tests", IF sandbox THEN "ran" ELSE "inactive")
    /\ IF writes
       THEN /\ edits' = edits + 1
            /\ workspace' = [p \in DOMAIN workspace \cup {path} |->
                                IF p = path THEN <<Text("v1")>> ELSE workspace[p]]
       ELSE UNCHANGED <<edits, workspace>>
    /\ UNCHANGED <<swap_table, hostVars, startVars, agent, tester, test_code, tests_run,
                   project, snapshots, logs>>
    /\ UNCHANGED <<sessOthers, sb_fresh>>

\* follow_up(message): without a sandbox only a message is printed; with one
\* the agent continues and may write a file.  When continue_run returns, the
\* cached diffs are dropped; when it raises (KeyboardInterrupt out of
\* exec_stream, an exception out of the renderer callback), follow_up is left
\* before the line that drops them.
FollowUp(path, content, raised) ==
    /\ s_pc = "open"
    /\ sandbox \/ ~raised
    /\ last' = Last("follow_up", IF ~sandbox THEN "inactive"
                                 ELSE IF raised THEN "raised" ELSE "ran")
    /\ IF sandbox
       THEN /\ diffs' = IF raised THEN diffs ELSE <<>>
            /\ IF edits < MaxEdits
               THEN /\ edits' = edits + 1
                    /\ workspace' = [p \in DOMAIN workspace \cup {path} |->
                                        IF p = path THEN content ELSE workspace[p]]
               ELSE UNCHANGED <<edits, workspace>>
       ELSE UNCHANGED <<diffs, edits, workspace>>
    /\ UNCHANGED <<swap_table, hostVars, startVars, agent, tester, test_code, tests_run,
                   project, snapshots, logs>>
    /\ UNCHANGED <<sessOthers, sb_fresh>>

\* merge(): blocked is the guardrail's verdict where a guardrail is configured;
\* verdict is how review_diff ends: the user approves, the user rejects, or
\* ask_about_diff raises.
Merge(blocked, verdict) ==
    /\ s_pc = "open"
    /\ LET got == GetDiffs
           d == IF got = <<>> THEN <<>> ELSE got[1]
       IN  IF DOMAIN d = {}
           THEN /\ Cleanup
                /\ last' = Last("merge", "nochanges")
                /\ UNCHANGED <<project, logs>>
           ELSE IF config.guardrail_id /\ blocked
           THEN /\ Cleanup
                /\ last' = Last("merge", "blocked")
                /\ UNCHANGED <<project, logs>>
           ELSE IF verdict = "raised"
           THEN /\ diffs' = got
                /\ last' = Last("merge", "review_raised")
                /\ UNCHANGED <<project, logs, parked, proxy_running, proxy, sandbox,
                               shadow_env>>
           ELSE /\ project' = MergedTree(verdict = "approved", d, project)
                /\ last' = Last("merge", verdict)
                /\ IF WriteLogRaises
                   THEN /\ diffs' = got
                        /\ UNCHANGED <<logs, parked, proxy_running, proxy, sandbox,
                                       shadow_env>>
                   ELSE /\ logs' = Append(logs,
                                        <<Text(verdict)>>
                                        \o (IF config.guardrail_id \/ lint_diffs(d) = {}
                                            THEN <<>> ELSE <<Text("lint_violations")>>))
                        /\ Cleanup
    /\ UNCHANGED <<swap_table, hostVars, s_pc, snapshot_id, agent_env, env_file,
                   ca_installed, agent, tester, test_code, tests_run, edits, workspace,
                   snapshots>>
    /\ UNCHANGED <<sessOthers, sb_fresh>>

\* reject(): write_log comes first, _cleanup after it.
Reject ==
    /\ s_pc = "open"
    /\ IF WriteLogRaises
       THEN /\ last' = Last("reject", "raised")
            /\ UNCHANGED <<logs, parked, proxy_running, proxy, sandbox, diffs, shadow_env>>
       ELSE /\ last' = Last("reject", "rejected")
            /\ logs' = Append(logs, <<Text("reject")>>)
            /\ Cleanup
    /\ UNCHANGED <<swap_table, hostVars, s_pc, snapshot_id, agent_env, env_file,
                   ca_installed, agent, tester, test_code, tests_run, edits, workspace,
                   project, snapshots>>
    /\ UNCHANGED <<sessOthers, sb_fresh>>

\* The shell's next task: Session() builds a new object; what an earlier
\* session left running stays as it is.
NewSession ==
    /\ s_pc \in {"open", "exit", "failed"}
    /\ Len(snapshots) < MaxSessions
    /\ s_pc' = "new"
    /\ snapshot_id' = <<>>
    /\ shadow_env' = <<>>
    /\ proxy' = FALSE
    /\ agent_env' = <<>>
    /\ sandbox' = FALSE
    /\ ca_installed' = FALSE
    /\ agent' = "idle"
    /\ tester' = "idle"
    /\ test_code' = "none"
    /\ tests_run' = FALSE
    /\ diffs' = <<>>
    /\ last' = Last("init", "none")
    /\ UNCHANGED <<swap_table, hostVars, proxy_running, parked, env_file, edits,
                   workspace, project, snapshots, logs>>
    /\ UNCHANGED <<sessOthers, sb_fresh>>

SessionConfigs == [agent : {"claude-code"}, shadow_env : {{}}, agent_env : {{}},
                   guardrail_id : BOOLEAN]

InitSession ==
    /\ dotenv = [k \in {"STRIPE_KEY"} |-> FileVal]
    /\ environ = [k \in {"ANTHROPIC_API_KEY"} |-> HostVal]
    /\ config \in SessionConfigs
    /\ crypto \in BOOLEAN
    /\ project = [p \in {"app.py"} |-> OldFile]
    /\ SessionNew
    /\ ProxyIdle /\ SwapIdle /\ RelayIdle /\ HttpIdle /\ BootIdle /\ ServeIdle /\ StoreIdle /\ LateIdle
\* secrets.token_hex of build_shadow_map: the tokens are interchangeable, so
\* the first session of a run draws "t1"; later sessions draw any token.
SessionTokens ==
    IF Len(snapshots) <= 1 THEN {[n \in EnvNames |-> "t1"]} ELSE [EnvNames -> Tokens]

NextSession ==
    \/ Snapshot
    \/ \E tok \in SessionTokens : BuildShadowMap(tok)
    \/ TryStartProxy
    \/ CollectAgentEnv
    \/ \E cp_ok \in BOOLEAN : StartBoot(cp_ok)
    \/ StartBootRaises
    \/ InstallCA
    \/ SubmitAgent
    \/ SubmitTester
    \/ \E path \in Paths : \E content \in NewFiles(shadow_env) : AgentWrites(path, content)
    \/ \E path \in Paths : AgentDeletes(path)
    \/ AgentFinishes("done")
    \/ \E out \in {"none", "code", "raised"} : TesterFinishes(out)
    \/ Join
    \/ RunTests
    \/ StartLog
    \/ ShowDiff
    \/ \E path \in Paths : \E writes \in BOOLEAN : ManualTests(path, writes)
    \/ \E path \in Paths : \E content \in NewFiles(shadow_env) : \E raised \in BOOLEAN :
           FollowUp(path, content, raised)
    \/ \E blocked \in BOOLEAN : \E verdict \in {"approved", "rejected", "raised"} :
           Merge(blocked, verdict)
    \/ Reject
    \/ NewSession
SpecSession == InitSession /\ [][NextSession]_vars

\* C34: boot() returns only when every step of the workspace initialisation
\* succeeded: the wipe on a reused container, then the copy of the snapshot.
\* A failed step makes boot() raise, and no agent is started.
C34_InitFailureStopsBoot ==
    [][(s_pc = "env" /\ s_pc' = "booted")
          => workspace' = DictMerge(IF sb_fresh # <<>> THEN <<>> ELSE workspace,
                                    snapshots[snapshot_id[1]])]_vars

\* C32: whenever merge() writes its diff list into the project, the list is
\* the diff of the workspace as it is then against the snapshot, whatever
\* show_diff, run_tests and follow_up calls came before.
C32_MergeAppliesCurrentDiff ==
    [][(s_pc = "open" /\ last'.op = "merge" /\ last'.path = "approved")
          => project' = MergeChanges(ComputeDiff(workspace, snapshots[snapshot_id[1]]),
                                     project)]_vars

\* SpecStart: one start() with every outcome of the two workers, then the
\* review of what it left.
NextStart ==
    \/ Snapshot
    \/ \E tok \in SessionTokens : BuildShadowMap(tok)
    \/ TryStartProxy
    \/ CollectAgentEnv
    \/ \E cp_ok \in BOOLEAN : StartBoot(cp_ok)
    \/ StartBootRaises
    \/ InstallCA
    \/ SubmitAgent
    \/ SubmitTester
    \/ \E path \in Paths : \E content \in NewFiles(shadow_env) : AgentWrites(path, content)
    \/ \E path \in Paths : AgentDeletes(path)
    \/ \E out \in AgentEnded : AgentFinishes(out)
    \/ \E out \in {"none", "code", "raised"} : TesterFinishes(out)
    \/ Join
    \/ RunTests
    \/ StartLog
    \/ ShowDiff
    \/ \E blocked \in BOOLEAN : \E verdict \in {"approved", "rejected", "raised"} :
           Merge(blocked, verdict)
    \/ Reject
SpecStart == InitSession /\ [][NextStart]_vars

\* C27: an exception or a non-zero exit of the agent worker never aborts
\* start(): once start() is over the tester has been joined, start() has
\* returned, the session_start entry is in the audit log and the session is
\* active.
C27_AgentFailureKeepsSession ==
    (s_pc = "open" /\ last.op = "start" /\ agent \in {"failed", "raised"})
        => /\ tester = "done"
           /\ last.path = "returned"
           /\ \E i \in DOMAIN logs : logs[i] = <<Text("session_start")>>
           /\ sandbox

\* C28: a failure of the tester (it raises, or it returns nothing) never
\* aborts start(): once start() is over it has returned and the session is
\* active, so that review and merge can follow.
C28_TesterFailureKeepsSession ==
    (s_pc = "open" /\ last.op = "start" /\ test_code \in {"none", "raised"})
        => /\ last.path = "returned"
           /\ sandbox

\* The steps that reach a write_log call: the end of start(), a merge() the
\* user approved or rejected at the review, a reject().
ReachesWriteLog ==
    \/ s_pc = "tested" /\ s_pc' = "open"
    \/ s_pc = "open" /\ last'.op = "merge" /\ last'.path \in {"approved", "rejected"}
    \/ s_pc = "open" /\ last'.op = "reject"

\* C30: start(), merge() and reject() each write an audit entry; the entry is
\* appended at the end of the log, every earlier line stays as it was, and the
\* entry carries the name of its event.
C30_AuditEntryAppended ==
    [][ReachesWriteLog =>
           /\ Len(logs') > Len(logs)
           /\ SubSeq(logs', 1, Len(logs)) = logs
           /\ \A i \in (Len(logs) + 1)..Len(logs') :
                  logs'[i][1] \in {Text("session_start"), Text("approved"),
                                   Text("rejected"), Text("reject")}]_vars

\* C12: when boot() has returned on a reused container, /workspace holds
\* exactly the files of the snapshot being booted: every snapshot file with
\* the snapshot's content and nothing the previous session left.
C12_WarmBootResetsWorkspace ==
    s_pc = "booted" /\ sb_fresh = <<FALSE>>
    => workspace = snapshots[snapshot_id[1]]

\* C14: the diffs are computed from the sandbox when they are fetched with
\* nothing cached, are served unchanged while cached, and every follow_up on
\* an active session leaves nothing cached, so that the next show_diff,
\* run_tests or merge computes them anew from the workspace the follow-up
\* edited.
C14_DiffCachedUntilFollowUp ==
    [][/\ diffs = <<>> /\ diffs' # <<>>
          => diffs'[1] = ComputeDiff(workspace', snapshots'[snapshot_id'[1]])
       /\ diffs # <<>> /\ diffs' # <<>> => diffs' = diffs
       /\ last'.op = "follow_up" /\ sandbox => diffs' = <<>>]_vars

\* C5: the project tree changes only in a merge() whose review was approved.
C5_ProjectChangesOnlyOnApproval ==
    [][project' # project => last' = Last("merge", "approved")]_vars

C5_Witness ==
    /\ last = Last("merge", "approved")
    /\ project # snapshots[snapshot_id[1]]
    /\ project = MergeChanges(diffs[1], snapshots[snapshot_id[1]])

\* C8: no project file, no snapshot and no audit log entry holds a shadow
\* placeholder.
C8_NoPlaceholderPersisted ==
    /\ \A p \in DOMAIN project : ~HasPlaceholder(project[p])
    /\ \A i \in 1..Len(snapshots) :
           \A p \in DOMAIN snapshots[i] : ~HasPlaceholder(snapshots[i][p])
    /\ \A i \in 1..Len(logs) : ~HasPlaceholder(logs[i])

\* C9: the snapshot exists before boot; boot and the CA installation are over
\* before the agent starts; the tester is submitted right after the agent and
\* either may finish first; tests, diffs, review and merge come only after
\* the agent worker has finished.
C9_StartOrder ==
    /\ s_pc \notin {"new"} => snapshot_id # <<>>
    /\ sandbox => snapshot_id # <<>> /\ snapshot_id[1] \in 1..Len(snapshots)
    /\ agent # "idle" => /\ s_pc \notin {"new", "snapshot", "shadow", "proxy", "env",
                                         "booted", "ready"}
                         /\ env_file # <<>>
                         /\ proxy => ca_installed
    /\ agent = "running" => sandbox
    /\ tester # "idle" => agent # "idle"
    /\ (tests_run \/ diffs # <<>> \/ last.op \in {"merge", "show_diff", "follow_up", "reject"})
           => agent \in AgentEnded /\ tester = "done"

C9_Witness == agent = "running" /\ tester = "done" /\ s_pc = "forked"

\* C10: after merge() the sandbox is parked, the proxy is stopped and its
\* reference cleared, and the session is inactive.
C10_MergeAlwaysCleansUp ==
    last.op = "merge" => ~sandbox /\ parked /\ ~proxy /\ ~proxy_running

-----------------------------------------------------------------------------
(* SpecDiff: get_diff and _merge_changes as functions of a snapshot and a     *)
(* workspace.  A session has booted on a snapshot equal to the project tree;  *)
(* the agent derives the workspace from it by writing and deleting files;     *)
(* then the diff is computed and merged into the project tree.                *)

DiffPaths == {"app.py", "conf.json", "node_modules/m.js"}

\* What a file may hold: two texts, and the first one without its final
\* newline.
DiffFiles == {<<Text("v0")>>, <<Text("v0"), NoNewline>>, <<Text("v1")>>}

\* LocalSnapshotStore.create leaves node_modules out (_RSYNC_EXCLUDES).
DiffSnapshots ==
    UNION {[S -> DiffFiles] :
              S \in SUBSET {p \in DiffPaths : ~_should_ignore_in_diff(p)}}

DiffInit ==
    /\ dotenv = <<>> /\ environ = <<>> /\ config = <<>> /\ crypto = FALSE
    /\ s_pc = "diff"
    /\ snapshot_id = <<1>>
    /\ shadow_env = <<>>
    /\ proxy = FALSE
    /\ proxy_running = FALSE
    /\ agent_env = <<>>
    /\ sandbox = TRUE
    /\ parked = FALSE
    /\ env_file = <<>>
    /\ ca_installed = FALSE
    /\ sb_fresh = <<TRUE>>
    /\ agent = "running"
    /\ tester = "idle"
    /\ test_code = "none"
    /\ tests_run = FALSE
    /\ edits = 0
    /\ diffs = <<>>
    /\ logs = <<>>
    /\ last = Last("init", "none")
    /\ project \in DiffSnapshots
    /\ snapshots = <<project>>
    /\ workspace = project

diffOthers == <<proxyTable, swapVars, relayVars, httpVars, bootVars, serveVars, storeVars,
                lateVars, hostVars,
                startVars, agent, tester, test_code, tests_run, edits, snapshots, logs>>

\* The agent creates or overwrites a file of the workspace.
DiffWrites(path, content) ==
    /\ s_pc = "diff"
    /\ diffs = <<>>
    /\ workspace' = [p \in DOMAIN workspace \cup {path} |->
                        IF p = path THEN content ELSE workspace[p]]
    /\ UNCHANGED <<diffs, project, last, diffOthers>>

\* The agent deletes a file of the workspace.
DiffDeletes(path) ==
    /\ s_pc = "diff"
    /\ diffs = <<>>
    /\ path \in DOMAIN workspace
    /\ workspace' = [p \in DOMAIN workspace \ {path} |-> workspace[p]]
    /\ UNCHANGED <<diffs, project, last, diffOthers>>

\* get_diff, then _merge_changes of its result into the project tree.
DiffMerge ==
    /\ s_pc = "diff"
    /\ diffs = <<>>
    /\ diffs' = <<ComputeDiff(workspace, snapshots[snapshot_id[1]])>>
    /\ project' = MergeChanges(diffs'[1], project)
    /\ last' = Last("merge", "approved")
    /\ UNCHANGED <<workspace, diffOthers>>

InitDiff == DiffInit /\ ProxyIdle /\ SwapIdle /\ RelayIdle /\ HttpIdle /\ BootIdle
    /\ ServeIdle /\ StoreIdle /\ LateIdle
NextDiff ==
    \/ \E path \in DiffPaths : \E content \in DiffFiles : DiffWrites(path, content)
    \/ \E path \in DiffPaths : DiffDeletes(path)
    \/ DiffMerge
SpecDiff == InitDiff /\ [][NextDiff]_vars

\* C13: once the diff of a workspace against its snapshot has been merged
\* into a tree equal to the snapshot, the tree has the workspace's files with
\* the workspace's bytes on every path outside the ignore set.
C13_MergeRestoresWorkspace ==
    s_pc = "diff" /\ diffs # <<>>
    => \A p \in DiffPaths :
          ~_should_ignore_in_diff(p)
          => /\ p \in DOMAIN project <=> p \in DOMAIN workspace
             /\ p \in DOMAIN project => project[p] = workspace[p]

-----------------------------------------------------------------------------
(* SpecServe: the proxy server of one session: CredentialSwapProxy.start and  *)
(* stop, called by the session thread, and the ftl-proxy thread that runs     *)
(* serve_forever of _ProxyServer, an http.server.HTTPServer: it accepts one   *)
(* connection, runs its handler to the end, then accepts the next.            *)

Conns == {1, 2}

\* stop() calls in one run of the model.
MaxStops == 2

\* The table the proxy was built with, and a request that carries its
\* placeholder.
ServeTable == << << <<"a">>, <<"b">> >> >>
PlaceholderRequest == <<"c", "a">>

ServeInit ==
    /\ p_server = FALSE
    /\ p_thread = FALSE
    /\ loop = FALSE
    /\ shutdown_request = FALSE
    /\ busy = <<>>
    /\ conn = [c \in Conns |-> "new"]
    /\ reply = [c \in Conns |-> <<>>]
    /\ ended = [c \in Conns |-> "open"]
    /\ up_sent = [c \in Conns |-> <<>>]
    /\ stop_pc = "idle"
    /\ stops = 0
    /\ at_stop = {}

serveOthers == <<proxyTable, swapVars, relayVars, httpVars, bootVars, sessVars,
                storeVars, lateVars>>

\* A stop() that calls shutdown() whether or not there is a server.
AlwaysShutdown(server) == TRUE

\* stop(): `if self._server:`
StopGuard(server) == server

\* A server whose loop ends with the handler that failed.
LoopDies(serving) == FALSE

\* socketserver catches what a handler raises, calls handle_error (which
\* _ProxyServer overrides to do nothing) and closes the request; serve_forever
\* goes on.
AfterHandlerError(serving) == serving

\* HTTPServer has no ThreadingMixIn: process_request runs the handler in the
\* thread of serve_forever, which accepts again when the handler has returned.
CanAccept == loop /\ ~shutdown_request /\ busy = <<>>

\* The handler of connection c returns or raises: the connection is closed
\* and the server thread is back in its loop.
HandlerEnds(c, why) ==
    /\ conn' = [conn EXCEPT ![c] = "closed"]
    /\ ended' = [ended EXCEPT ![c] = why]
    /\ busy' = <<>>
    /\ loop' = IF why \in {"done", "peer"} THEN loop ELSE AfterHandlerError(loop)

\* CredentialSwapProxy.start(): the server is built (the port is bound and
\* listening) and serve_forever starts in a daemon thread.
ProxyStart ==
    /\ ~p_thread
    /\ stop_pc \in {"idle", "returned"}
    /\ p_server' = TRUE
    /\ p_thread' = TRUE
    /\ loop' = TRUE
    /\ UNCHANGED <<shutdown_request, busy, conn, reply, ended, up_sent, stop_pc, stops,
                   at_stop, serveOthers>>

\* A client connects to the listening socket; the connection waits in the
\* backlog until the server accepts it.
ClientConnects(c) ==
    /\ p_server
    /\ conn[c] = "new"
    /\ conn' = [conn EXCEPT ![c] = "queued"]
    /\ UNCHANGED <<p_server, p_thread, loop, shutdown_request, busy, reply, ended,
                   up_sent, stop_pc, stops, at_stop, serveOthers>>

\* serve_forever: select reports the socket readable, get_request accepts and
\* the handler starts.
Accept(c) ==
    /\ CanAccept
    /\ conn[c] = "queued"
    /\ busy' = <<c>>
    /\ conn' = [conn EXCEPT ![c] = "accepted"]
    /\ UNCHANGED <<p_server, p_thread, loop, shutdown_request, reply, ended, up_sent,
                   stop_pc, stops, at_stop, serveOthers>>

\* do_CONNECT: "200 Connection Established" is sent before anything else.
DoConnect(c) ==
    /\ busy = <<c>>
    /\ conn[c] = "accepted"
    /\ reply' = [reply EXCEPT ![c] = Append(@, 200)]
    /\ conn' = [conn EXCEPT ![c] = "established"]
    /\ UNCHANGED <<p_server, p_thread, loop, shutdown_request, busy, ended, up_sent,
                   stop_pc, stops, at_stop, serveOthers>>

\* do_CONNECT: wrap_socket on the client side; ssl.SSLError makes the handler
\* return, any other exception goes to handle_error.
ClientHandshake(c, ok) ==
    /\ busy = <<c>>
    /\ conn[c] = "established"
    /\ IF ok
       THEN /\ conn' = [conn EXCEPT ![c] = "tls"]
            /\ UNCHANGED <<ended, busy, loop>>
       ELSE HandlerEnds(c, "handshake")
    /\ UNCHANGED <<p_server, p_thread, shutdown_request, reply, up_sent, stop_pc, stops,
                   at_stop, serveOthers>>

\* do_CONNECT: create_connection and the TLS handshake with the upstream; on
\* socket.error or ssl.SSLError the client socket is closed and the handler
\* returns.
UpstreamConnect(c, ok) ==
    /\ busy = <<c>>
    /\ conn[c] = "tls"
    /\ IF ok
       THEN /\ conn' = [conn EXCEPT ![c] = "relay"]
            /\ UNCHANGED <<ended, busy, loop>>
       ELSE HandlerEnds(c, "refused")
    /\ UNCHANGED <<p_server, p_thread, shutdown_request, reply, up_sent, stop_pc, stops,
                   at_stop, serveOthers>>

\* _relay: the client's request is read, swapped and written upstream.
TunnelRequest(c) ==
    /\ busy = <<c>>
    /\ conn[c] = "relay"
    /\ up_sent[c] = <<>>
    /\ up_sent' = [up_sent EXCEPT ![c] = Swap(PlaceholderRequest)]
    /\ UNCHANGED <<p_server, p_thread, loop, shutdown_request, busy, conn, reply, ended,
                   stop_pc, stops, at_stop, serveOthers>>

\* _relay ends: a peer closed its side (recv returned nothing), or select
\* reported nothing for _RELAY_TIMEOUT seconds.
TunnelEnds(c, why) ==
    /\ busy = <<c>>
    /\ conn[c] = "relay"
    /\ HandlerEnds(c, why)
    /\ UNCHANGED <<p_server, p_thread, shutdown_request, reply, up_sent, stop_pc, stops,
                   at_stop, serveOthers>>

\* _forward: a plain request is sent upstream with urlopen; the upstream's
\* answer is passed on, any failure to get one is answered with 502.
Forward(c, ok) ==
    /\ busy = <<c>>
    /\ conn[c] = "accepted"
    /\ reply' = [reply EXCEPT ![c] = Append(@, IF ok THEN 200 ELSE 502)]
    /\ up_sent' = [up_sent EXCEPT ![c] = IF ok THEN Swap(PlaceholderRequest) ELSE @]
    /\ HandlerEnds(c, IF ok THEN "done" ELSE "http_error")
    /\ UNCHANGED <<p_server, p_thread, shutdown_request, stop_pc, stops, at_stop,
                   serveOthers>>

\* stop() is called: without a server it returns at once; with one,
\* shutdown() sets the flag and waits for serve_forever to end.
StopCall ==
    /\ stop_pc \in {"idle", "returned"}
    /\ stops < MaxStops
    /\ stops' = stops + 1
    /\ at_stop' = {c \in Conns : conn[c] = "relay"}
    /\ IF StopGuard(p_server)
       THEN IF p_server
            THEN /\ shutdown_request' = TRUE
                 /\ stop_pc' = "waiting"
            ELSE /\ stop_pc' = "raised"
                 /\ UNCHANGED shutdown_request
       ELSE /\ stop_pc' = "returned"
            /\ UNCHANGED shutdown_request
    /\ UNCHANGED <<p_server, p_thread, loop, busy, conn, reply, ended, up_sent,
                   serveOthers>>

\* serve_forever sees the flag when it is back in its loop, and ends.
LoopExits ==
    /\ loop
    /\ shutdown_request
    /\ busy = <<>>
    /\ loop' = FALSE
    /\ shutdown_request' = FALSE
    /\ UNCHANGED <<p_server, p_thread, busy, conn, reply, ended, up_sent, stop_pc, stops,
                   at_stop, serveOthers>>

\* shutdown() returns; stop() drops the server and returns.
StopReturn ==
    /\ stop_pc = "waiting"
    /\ ~loop
    /\ p_server' = FALSE
    /\ stop_pc' = "returned"
    /\ UNCHANGED <<p_thread, loop, shutdown_request, busy, conn, reply, ended, up_sent,
                   stops, at_stop, serveOthers>>

InitServe ==
    /\ swap_table = ServeTable
    /\ ServeInit /\ SwapIdle /\ RelayIdle /\ HttpIdle /\ BootIdle /\ SessionIdle
    /\ StoreIdle /\ LateIdle
NextServe ==
    \/ ProxyStart
    \/ \E c \in Conns : ClientConnects(c)
    \/ \E c \in Conns : Accept(c)
    \/ \E c \in Conns : DoConnect(c)
    \/ \E c \in Conns : \E ok \in BOOLEAN : ClientHandshake(c, ok)
    \/ \E c \in Conns : \E ok \in BOOLEAN : UpstreamConnect(c, ok)
    \/ \E c \in Conns : TunnelRequest(c)
    \/ \E c \in Conns : \E why \in {"peer", "idle"} : TunnelEnds(c, why)
    \/ \E c \in Conns : \E ok \in BOOLEAN : Forward(c, ok)
    \/ StopCall
    \/ LoopExits
    \/ StopReturn
SpecServe == InitServe /\ [][NextServe]_vars

\* C16: connections are served concurrently: while one connection is held in
\* a relay or waits for its upstream to connect, a connection that waits to be
\* served can be accepted at once.
C16_WaitingConnectionIsServed ==
    \A c \in Conns, o \in Conns :
        /\ conn[o] \in {"tls", "relay"}
        /\ conn[c] = "queued" /\ loop /\ ~shutdown_request
        => CanAccept

\* C17: when a stop() called with relays active has returned, every relay
\* that was active when it was called has been closed by stop() itself, not by a peer closing or by the
\* idle timeout, and the server no longer accepts.
C17_StopClosesRelays ==
    stop_pc = "returned" /\ at_stop # {}
    => /\ \A c \in at_stop : conn[c] = "closed" /\ ended[c] = "stop"
       /\ ~CanAccept

\* C18: a stop() on a proxy that has no server (never started, or already
\* stopped) returns without raising and leaves the proxy and its connections
\* as they were; no stop() raises.
C18_StopIdempotent ==
    [][/\ stop_pc' # "raised"
       /\ stops' = stops + 1 /\ ~p_server
          => /\ stop_pc' = "returned"
             /\ UNCHANGED <<p_server, p_thread, loop, shutdown_request, busy, conn,
                            reply, ended, up_sent>>]_vars

\* A started proxy has been stopped twice; both calls returned.
C18_Witness ==
    p_thread /\ ~p_server /\ ~loop /\ stops = 2 /\ stop_pc = "returned"

\* C19: a CONNECT whose upstream could not be reached is answered with 502,
\* and nothing of the client's request is written upstream.
C19_UnreachableUpstreamGets502 ==
    \A c \in Conns :
        ended[c] = "refused"
        => /\ \E i \in 1..Len(reply[c]) : reply[c][i] = 502
           /\ up_sent[c] = <<>>

\* The ways a connection ends on an error of its own.
ConnectionErrors == {"handshake", "refused", "http_error", "idle"}

\* C20: a step on which a connection ends on an error of its own closes that
\* connection only: the server goes on as before and is free to accept, the
\* other connections and the swap table are untouched, and stop() in the
\* session thread is not affected.
C20_ErrorEndsOneConnection ==
    [][\A c \in Conns :
          ended[c] = "open" /\ ended'[c] \in ConnectionErrors
          => /\ loop' = loop /\ p_server' = p_server
             /\ shutdown_request' = shutdown_request
             /\ busy' = <<>>
             /\ \A o \in Conns \ {c} :
                   conn'[o] = conn[o] /\ ended'[o] = ended[o] /\ reply'[o] = reply[o]
             /\ swap_table' = swap_table
             /\ stop_pc' = stop_pc /\ stop_pc' # "raised"]_vars

\* One connection has ended on an error and the server is relaying another
\* that it accepted afterwards.
C20_Witness ==
    /\ ended[1] \in ConnectionErrors
    /\ busy = <<2>> /\ conn[2] = "relay" /\ up_sent[2] # <<>>
    /\ swap_table = ServeTable

-----------------------------------------------------------------------------
(* SpecStore: the snapshot store, local and S3 (src/ftl/snapshot).  A tree   *)
(* maps a relative path, a tuple of components, to the file's lines.        *)

\* Snapshots one run of the model creates or uploads.
MaxSnapshots == 2
Ids == 1..MaxSnapshots

Projects == {"/p", "/q"}
Target == "/t"

META == <<".ftl_meta">>
File(path, content) == [f \in {path} |-> content]

_RSYNC_EXCLUDES ==
    {".git", "__pycache__", "*.pyc", "node_modules", ".venv", "venv", "*.egg-info",
     "*.dist-info", ".pytest_cache", ".mypy_cache", ".ruff_cache"}

ALWAYS_IGNORE ==
    {"node_modules", ".git", "__pycache__", ".env", "venv", ".venv", "dist", "build",
     ".next", ".ftl", ".pytest_cache", ".mypy_cache", ".ruff_cache", ".coverage",
     "coverage", "htmlcov"}

\* The names of the model a wildcard pattern matches.
Globs == [pat \in {"*.pyc", "*.egg-info", "*.dist-info"} |->
             IF pat = "*.pyc" THEN {"m.pyc"} ELSE {}]
NameMatch(name, pat) == IF pat \in DOMAIN Globs THEN name \in Globs[pat] ELSE name = pat

\* The lines of .ftlignore that are neither blank nor a comment.
load_ftlignore(tree) ==
    IF <<".ftlignore">> \notin DOMAIN tree THEN {}
    ELSE {l \in LinesOf(tree[<<".ftlignore">>]) : l # "" /\ l # "# local"}

get_ignore_set(tree) == ALWAYS_IGNORE \cup load_ftlignore(tree)

\* should_ignore: some component of the path is in the ignore set.
should_ignore(path, ignore_set) == \E i \in 1..Len(path) : path[i] \in ignore_set

\* The --exclude arguments of create(): the hard-coded names as they are, the
\* ignore set with a leading "/", which anchors a pattern at the root of the copy.
Excludes(ignore_set) ==
    {<<"", e>> : e \in _RSYNC_EXCLUDES} \cup {<<"/", q>> : q \in ignore_set}

\* rsync's exclude rule: a pattern without "/" matches a name at any depth, and
\* what is below an excluded directory is not visited; "/name" matches at the
\* root of the transfer only.
Excluded(path, excludes) ==
    \E e \in excludes :
        IF e[1] = "/" THEN NameMatch(path[1], e[2])
        ELSE \E i \in 1..Len(path) : NameMatch(path[i], e[2])

\* rsync -a --delete src/ dst/: the files of src that are not excluded are
\* copied; a file of dst that src does not have is deleted unless it is excluded.
rsync(src, dst, excludes) ==
    LET sent == {f \in DOMAIN src : ~Excluded(f, excludes)}
        kept == {f \in DOMAIN dst : Excluded(f, excludes)}
    IN  [f \in sent \cup kept |-> IF f \in sent THEN src[f] ELSE dst[f]]

\* The snapshot directory create() leaves: .ftl_meta is written, then rsync runs.
SnapshotOf(tree, project_path) ==
    rsync(tree, File(META, <<project_path>>), Excludes(get_ignore_set(tree)))

\* A tar member: a regular file with its lines, or a symbolic link with its target.
Member(name, type, body) == [name |-> name, type |-> type, body |-> body]

\* _make_tarball: tar.add(directory, arcname="."), every file of the tree.
RECURSIVE _make_tarball(_)
_make_tarball(tree) ==
    IF DOMAIN tree = {} THEN <<>>
    ELSE LET f == CHOOSE x \in DOMAIN tree : TRUE
         IN  <<Member(f, "file", tree[f])>>
                 \o _make_tarball([x \in DOMAIN tree \ {f} |-> tree[x]])

\* Path.resolve() of target / name while nothing of name exists below target:
\* ".." is taken lexically.  up counts the steps above the target.
RECURSIVE Norm(_, _, _)
Norm(rest, acc, up) ==
    IF rest = <<>> THEN [up |-> up, path |-> acc]
    ELSE IF Head(rest) = ".."
         THEN IF acc = <<>> THEN Norm(Tail(rest), acc, up + 1)
              ELSE Norm(Tail(rest), SubSeq(acc, 1, Len(acc) - 1), up)
         ELSE Norm(Tail(rest), Append(acc, Head(rest)), up)
Resolve(name) == Norm(name, <<>>, 0)

\* The guard of _extract_tarball: some member's resolved path is neither the
\* target nor below it.
Unsafe(tar) == \E i \in 1..Len(tar) : Resolve(tar[i].name).up > 0

\* tarfile's extraction filter: "fully_trusted" is the default before Python
\* 3.14, "data" from 3.14 on.
TarFilters == {"fully_trusted", "data"}

\* Where the kernel puts a file written at name once links were extracted.
Through(name, links) ==
    IF Len(name) > 1 /\ <<name[1]>> \in DOMAIN links
    THEN Resolve(links[<<name[1]>>] \o Tail(name))
    ELSE Resolve(name)

\* tar.extractall(target): the members in order.  The "data" filter refuses a
\* link that points outside the target; what was extracted before it stays.
RECURSIVE extractall(_, _, _)
extractall(tar, filter, st) ==
    IF tar = <<>> \/ st.err # "" THEN st
    ELSE LET m == Head(tar)
             at == Through(m.name, st.links)
         IN  IF m.type = "sym"
             THEN IF filter = "data"
                     /\ Resolve(SubSeq(m.name, 1, Len(m.name) - 1) \o m.body).up > 0
                  THEN [st EXCEPT !.err = "FilterError"]
                  ELSE extractall(Tail(tar), filter,
                           [st EXCEPT !.links = DictMerge(@, File(m.name, m.body))])
             ELSE IF at.up > 0
                  THEN extractall(Tail(tar), filter,
                           [st EXCEPT !.out = @ \cup {at.path}])
                  ELSE extractall(Tail(tar), filter,
                           [st EXCEPT !.tree = DictMerge(@, File(at.path, m.body))])

\* _extract_tarball into a directory that restore() has just created.
_extract_tarball(tar, filter) ==
    IF Unsafe(tar) THEN [tree |-> <<>>, links |-> <<>>, out |-> {}, err |-> "ValueError"]
    ELSE extractall(tar, filter, [tree |-> <<>>, links |-> <<>>, out |-> {}, err |-> ""])

\* The ids of a set in ascending order: sorted() of the entries of the directory.
RECURSIVE SortedIds(_)
SortedIds(S) ==
    IF S = {} THEN <<>>
    ELSE LET m == CHOOSE x \in S : \A y \in S : x <= y
         IN  <<m>> \o SortedIds(S \ {m})

\* hashlib.md5(path).hexdigest()[:12]: "96ce73b1d148" for "/q", "b86493d2ae25"
\* for "/p"; the rank of the hash among the two.
HashRank(project_path) == IF project_path = "/q" THEN 1 ELSE 2

\* _key: snapshots/<hash>/<id>__<path>.tar.gz, kept as <<id, path>>.  S3 lists
\* the keys of a prefix in the order of their bytes: by hash, then by id.
KeyBefore(k, l) ==
    \/ HashRank(k[2]) < HashRank(l[2])
    \/ HashRank(k[2]) = HashRank(l[2]) /\ k[1] <= l[1]
RECURSIVE ListObjects(_)
ListObjects(keys) ==
    IF keys = {} THEN <<>>
    ELSE LET k == CHOOSE x \in keys : \A y \in keys : KeyBefore(x, y)
         IN  <<k>> \o ListObjects(keys \ {k})

\* _find_key: the first listed key of this snapshot id, <<>> for None.
_find_key(id) ==
    LET hits == SelectSeq(ListObjects(DOMAIN bucket), LAMBDA k : k[1] = id)
    IN  IF hits = <<>> THEN <<>> ELSE <<Head(hits)>>

\* A removal that removes nothing.
KeepEntry(d, k) == d

\* shutil.rmtree of a snapshot directory, delete_object of a key.
Without(d, k) == [x \in DOMAIN d \ {k} |-> d[x]]

StoreRecord(id, project_path) == [id |-> id, project |-> project_path]

\* LocalSnapshotStore.list
LocalList(project_path) ==
    LET entries == SortedIds(DOMAIN snap_dir)
        with_meta == SelectSeq(entries, LAMBDA e : META \in DOMAIN snap_dir[e])
        wanted == SelectSeq(with_meta,
                    LAMBDA e : project_path = "" \/ snap_dir[e][META][1] = project_path)
    IN  [i \in 1..Len(wanted) |-> StoreRecord(wanted[i], snap_dir[wanted[i]][META][1])]

\* S3SnapshotStore.list
S3List(project_path) ==
    LET keys == ListObjects(DOMAIN bucket)
        wanted == SelectSeq(keys, LAMBDA k : project_path = "" \/ k[2] = project_path)
    IN  [i \in 1..Len(wanted) |-> StoreRecord(wanted[i][1], wanted[i][2])]

\* The copy loop of restore(): every file of the snapshot but .ftl_meta.
Overlay(target_tree, snap) ==
    DictMerge(target_tree,
              [f \in {g \in DOMAIN snap : g[Len(g)] # ".ftl_meta"} |-> snap[f]])

\* The first part of S3SnapshotStore.restore: the cache directory, filled from
\* S3 when it is absent.  err is "" when restore() goes on.
Fetch(id, filter) ==
    IF id \in DOMAIN snap_dir
    THEN [dir |-> snap_dir, out |-> {}, err |-> ""]
    ELSE LET made == DictMerge(snap_dir, id :> <<>>)
             key == _find_key(id)
         IN  IF key = <<>> THEN [dir |-> made, out |-> {}, err |-> "ValueError"]
             ELSE LET x == _extract_tarball(bucket[key[1]], filter)
                  IN  [dir |-> DictMerge(made, id :> x.tree), out |-> x.out,
                       err |-> x.err]

\* restore() of either store: the directories, the files written outside and
\* the exception, "" when restore() returned.
RestoreOutcome(id, target_path, filter) ==
    LET got == IF backend = "s3" THEN Fetch(id, filter)
               ELSE [dir |-> snap_dir, out |-> {},
                     err |-> IF id \in DOMAIN snap_dir THEN "" ELSE "ValueError"]
        stay == [dir |-> got.dir, out |-> got.out, host |-> host, err |-> got.err]
    IN  IF got.err # "" THEN stay
        ELSE IF META \notin DOMAIN got.dir[id]
        THEN [stay EXCEPT !.err = IF backend = "s3" THEN "ValueError"
                                  ELSE "FileNotFoundError"]
        ELSE LET target == IF target_path = "" THEN got.dir[id][META][1]
                           ELSE target_path
             IN  [stay EXCEPT !.host = [host EXCEPT ![target] = Overlay(@, got.dir[id])]]

\* The tree of project /p: a source file, build output at the root and below
\* it, a vendored directory and a byte-code file below the root, and a
\* .ftlignore naming one more directory.  Project /q has one source file.
PlainTree == File(<<"app.py">>, <<"p0">>)
BuildTree ==
    DictMerge(PlainTree,
      DictMerge(File(<<"dist", "x.js">>, <<"p1">>),
        DictMerge(File(<<"sub", "dist", "x.js">>, <<"p2">>),
          DictMerge(File(<<"sub", "node_modules", "m.js">>, <<"p3">>),
                    File(<<"sub", "m.pyc">>, <<"p4">>)))))
IgnoreTree ==
    DictMerge(File(<<".ftlignore">>, <<"# local", "notes", "">>),
      DictMerge(File(<<"notes", "a.txt">>, <<"p5">>),
                File(<<"sub", "notes", "a.txt">>, <<"p6">>)))
ProjectTree == DictMerge(BuildTree, IgnoreTree)
\* The directory restores are aimed at has files of its own.
TargetTree == DictMerge(File(<<"app.py">>, <<"t0">>), File(<<"keep.txt">>, <<"t1">>))

\* The tarballs another writer of the bucket may have put there.
ForeignTars(project_path) ==
    { <<Member(META, "file", <<project_path>>), Member(<<"app.py">>, "file", <<"s0">>)>>,
      <<Member(<<"app.py">>, "file", <<"s0">>), Member(<<"..", "evil">>, "file", <<"s1">>)>>,
      <<Member(<<"d">>, "sym", <<"..">>), Member(<<"d", "evil">>, "file", <<"s1">>)>> }

StoreCall(op, id, project_path, out, records) ==
    [op |-> op, id |-> id, project |-> project_path, out |-> out, result |-> records]

StoreInit ==
    /\ backend \in {"local", "s3"}
    /\ snap_dir = <<>>
    /\ bucket = <<>>
    /\ host = [d \in Projects \cup {Target} |->
                  IF d = "/p" THEN ProjectTree
                  ELSE IF d = "/q" THEN PlainTree ELSE TargetTree]
    /\ escaped = {}
    /\ issued = {}
    /\ deleted_ids = {}
    /\ st_last = StoreCall("none", 0, "", "", <<>>)

storeOthers == <<proxyTable, swapVars, relayVars, httpVars, bootVars, sessVars, serveVars,
                lateVars>>

\* create(project_path) of either store.
Create(project_path) ==
    /\ \E id \in Ids \ issued :
          LET snap == SnapshotOf(host[project_path], project_path)
          IN  /\ snap_dir' = DictMerge(snap_dir, id :> snap)
              /\ bucket' = IF backend = "s3"
                           THEN DictMerge(bucket,
                                          <<id, project_path>> :> _make_tarball(snap))
                           ELSE bucket
              /\ issued' = issued \cup {id}
              /\ st_last' = StoreCall("create", id, project_path, "ok", <<>>)
    /\ UNCHANGED <<backend, host, escaped, deleted_ids, storeOthers>>

\* restore(snapshot_id, target_path); target_path "" is None.
Restore(id, target_path, filter) ==
    /\ LET r == RestoreOutcome(id, target_path, filter)
       IN  /\ snap_dir' = r.dir
           /\ escaped' = escaped \cup r.out
           /\ host' = r.host
           /\ st_last' = StoreCall("restore", id, target_path,
                                   IF r.err = "" THEN "ok" ELSE r.err, <<>>)
    /\ UNCHANGED <<backend, bucket, issued, deleted_ids, storeOthers>>

\* list(project_path); project_path "" is None.
List(project_path) ==
    /\ st_last' = StoreCall("list", 0, project_path, "ok",
                            IF backend = "s3" THEN S3List(project_path)
                            ELSE LocalList(project_path))
    /\ UNCHANGED <<backend, snap_dir, bucket, host, escaped, issued, deleted_ids,
                   storeOthers>>

\* delete(snapshot_id)
Delete(id) ==
    /\ bucket' = IF backend = "s3" /\ _find_key(id) # <<>>
                 THEN Without(bucket, _find_key(id)[1]) ELSE bucket
    /\ snap_dir' = Without(snap_dir, id)
    /\ deleted_ids' = deleted_ids \cup ({id} \cap issued)
    /\ st_last' = StoreCall("delete", id, "", "ok", <<>>)
    /\ UNCHANGED <<backend, host, escaped, issued, storeOthers>>

\* Another machine that shares the bucket uploads a snapshot.
ForeignPut(id, project_path, tar) ==
    /\ backend = "s3"
    /\ id \in Ids \ issued
    /\ bucket' = DictMerge(bucket, <<id, project_path>> :> tar)
    /\ issued' = issued \cup {id}
    /\ st_last' = StoreCall("put", id, project_path, "ok", <<>>)
    /\ UNCHANGED <<backend, snap_dir, host, escaped, deleted_ids, storeOthers>>

InitStore ==
    /\ StoreInit /\ ProxyIdle /\ SwapIdle /\ RelayIdle /\ HttpIdle /\ BootIdle
    /\ SessionIdle /\ ServeIdle /\ LateIdle
NextStore ==
    \/ \E project_path \in Projects : Create(project_path)
    \/ \E id \in Ids : \E target_path \in {"", Target} : \E filter \in TarFilters :
          Restore(id, target_path, filter)
    \/ \E project_path \in {""} \cup Projects : List(project_path)
    \/ \E id \in Ids : Delete(id)
    \/ \E id \in Ids : \E tar \in ForeignTars("/p") : ForeignPut(id, "/p", tar)
SpecStore == InitStore /\ [][NextStore]_vars

\* C21: an S3 restore writes no file outside the directory it extracts into,
\* whatever the tarball; when a member's resolved path escapes it, restore()
\* fails with an error and no member has been extracted.
C21_ExtractionStaysInTarget ==
    /\ escaped = {}
    /\ \A id \in Ids :
          /\ backend = "s3" /\ st_last.op = "restore" /\ st_last.id = id
          /\ _find_key(id) # <<>> /\ Unsafe(bucket[_find_key(id)[1]])
          => st_last.out = "ValueError" /\ snap_dir[id] = <<>>

\* C22: a snapshot create() made holds no file with a component of its path,
\* at whatever depth, in the ignore set of the project.
C22_NoIgnoredFileInSnapshot ==
    st_last.op = "create"
    => \A f \in DOMAIN snap_dir[st_last.id] :
          ~should_ignore(f, get_ignore_set(host[st_last.project]))

\* C23: when create(project) has returned an id, the directory of the
\* snapshot holds .ftl_meta with the project's absolute path.
C23_SnapshotRecordsOrigin ==
    st_last.op = "create" /\ st_last.out = "ok"
    => /\ META \in DOMAIN snap_dir[st_last.id]
       /\ snap_dir[st_last.id][META] = <<st_last.project>>

C25_RestoreOverlaysTarget ==
    st_last.op = "restore" /\ st_last.project = Target /\ st_last.id \in DOMAIN snap_dir
    => LET snap == snap_dir[st_last.id]
           tree == host[Target]
       IN  /\ \A f \in DOMAIN snap \ {META} : f \in DOMAIN tree /\ tree[f] = snap[f]
           /\ META \notin DOMAIN tree
           /\ \A f \in DOMAIN TargetTree \ DOMAIN snap :
                 f \in DOMAIN tree /\ tree[f] = TargetTree[f]

\* The snapshots that have a recorded origin: .ftl_meta in the local store,
\* the path in the key in S3.
Recorded ==
    IF backend = "s3" THEN {StoreRecord(k[1], k[2]) : k \in DOMAIN bucket}
    ELSE {StoreRecord(id, snap_dir[id][META][1]) :
             id \in {i \in DOMAIN snap_dir : META \in DOMAIN snap_dir[i]}}

\* C26: list(filter) returns one record for each snapshot whose recorded origin
\* is the filter (each snapshot with an origin when there is no filter), and
\* the records are in ascending order of id.
C26_ListSortedById ==
    st_last.op = "list"
    => LET l == st_last.result
       IN  /\ {l[i] : i \in 1..Len(l)}
                = {r \in Recorded : st_last.project = "" \/ r.project = st_last.project}
           /\ \A i, j \in 1..Len(l) : i < j => l[i].id < l[j].id

\* The real value of a name: its non-empty .env value, else os.environ's.
RealValue(name) ==
    IF name \in DOMAIN dotenv /\ dotenv[name] # EmptyVal THEN dotenv[name]
    ELSE environ[name]

\* The two tables of build_shadow_map agree: same size, the swap table maps
\* the placeholder of every loaded name to that name's real value, and no two
\* names share a placeholder.
TablesAgree ==
    /\ Len(swap_table) = Cardinality(DOMAIN shadow_env)
    /\ \A name \in DOMAIN shadow_env :
           /\ \E i \in 1..Len(swap_table) : swap_table[i][1] = shadow_env[name]
           /\ \A i \in 1..Len(swap_table) :
                  swap_table[i][1] = shadow_env[name] => swap_table[i][2] = RealValue(name)
    /\ \A a, b \in DOMAIN shadow_env : shadow_env[a] = shadow_env[b] => a = b

\* C40: once build_shadow_map has returned, its two tables agree and every
\* real value of the swap table is non-empty, whether the key comes from the
\* .env file or from os.environ through the extra names.
C40_ShadowMapSkipsEmptyValues ==
    s_pc \notin {"new", "snapshot"}
        => /\ TablesAgree
           /\ \A i \in 1..Len(swap_table) : swap_table[i][2] # EmptyVal

\* C38: in the S3 store a restore(id) that fails with the local cache of id
\* absent leaves it absent, so that the next restore(id) downloads again; and
\* a restore(id) brings the cache of id into being only by a download that
\* it extracted.
C38_FailedRestoreLeavesNoCache ==
    [][\A id \in Ids :
          (/\ backend = "s3"
           /\ st_last'.op = "restore" /\ st_last'.id = id
           /\ id \notin DOMAIN snap_dir)
          => /\ st_last'.out # "ok" => id \notin DOMAIN snap_dir'
             /\ id \in DOMAIN snap_dir' =>
                    /\ _find_key(id) # <<>>
                    /\ \E filter \in TarFilters :
                           snap_dir'[id] = _extract_tarball(bucket[_find_key(id)[1]],
                                                            filter).tree]_vars

(***************************************************************************)
(* SpecExec: one DockerSandbox.exec or exec_stream call on a command.  A   *)
(* command ends after dur seconds with an exit code and what it wrote to   *)
(* stdout and stderr, or never ends.                                       *)
(***************************************************************************)
MaxDur == 3
MaxTimeout == 2
\* The dur of a command that never exits.
Never == MaxDur + 1
ExitCodes == {0, 1, 124}
Commands == [dur : 0..Never, rc : ExitCodes, out : {<<>>, <<"o">>}, err : {<<>>, <<"e">>}]
Timeouts == 1..MaxTimeout

\* A message that leaves the timeout out.
BareMessage(timeout) == <<"Command timed out">>

\* f"Command timed out after {timeout}s"
TimedOutMessage(timeout) == <<"Command timed out after ", timeout, "s">>

Returned(rc, stdout, stderr) ==
    [how |-> "returned", rc |-> rc, stdout |-> stdout, stderr |-> stderr]
Raised(exc) == [how |-> "raised", rc |-> 0, stdout |-> <<>>, stderr |-> <<exc>>]

execOthers == <<proxyTable, swapVars, relayVars, httpVars, bootVars, sessVars, serveVars,
               storeVars, certVars, tunVars, shellVars>>

\* exec(command, timeout): subprocess.run(..., timeout=timeout) starts.
Exec(command, timeout) ==
    /\ ex_pc = "idle"
    /\ ex_pc' = "running"
    /\ ex_call' = <<[method |-> "exec", timeout |-> timeout, command |-> command]>>
    /\ UNCHANGED <<ex_clock, ex_ret, execOthers>>

\* exec_stream(command, callback, timeout): Popen starts; the timeout is
\* received and not used.
ExecStream(command, timeout) ==
    /\ ex_pc = "idle"
    /\ ex_pc' = "running"
    /\ ex_call' = <<[method |-> "exec_stream", timeout |-> timeout, command |-> command]>>
    /\ UNCHANGED <<ex_clock, ex_ret, execOthers>>

\* A second passes while the command runs and the caller waits: in exec up to
\* the timeout of subprocess.run, in exec_stream for as long as the command
\* runs (the clock of the model stops at Never).
Tick ==
    /\ ex_pc = "running"
    /\ ex_clock < ex_call[1].command.dur
    /\ ex_call[1].method = "exec" => ex_clock < ex_call[1].timeout
    /\ ex_clock < Never
    /\ ex_clock' = ex_clock + 1
    /\ UNCHANGED <<ex_pc, ex_call, ex_ret, execOthers>>

\* The command has ended: exec returns result.returncode, stdout, stderr.  A
\* command that ends at the very second of the timeout may be seen either way.
ExecReturns ==
    /\ ex_pc = "running"
    /\ ex_call[1].method = "exec"
    /\ ex_call[1].command.dur # Never
    /\ ex_clock = ex_call[1].command.dur
    /\ ex_pc' = "done"
    /\ ex_ret' = <<Returned(ex_call[1].command.rc, ex_call[1].command.out,
                            ex_call[1].command.err)>>
    /\ UNCHANGED <<ex_call, ex_clock, execOthers>>

\* subprocess.TimeoutExpired: exec returns 124, "", the message.
ExecTimesOut ==
    /\ ex_pc = "running"
    /\ ex_call[1].method = "exec"
    /\ ex_clock = ex_call[1].timeout
    /\ ex_clock <= ex_call[1].command.dur
    /\ ex_pc' = "done"
    /\ ex_ret' = <<Returned(124, <<>>, TimedOutMessage(ex_call[1].timeout))>>
    /\ UNCHANGED <<ex_call, ex_clock, execOthers>>

\* The command has ended and its output is at end of file: exec_stream
\* returns proc.returncode, the lines read (stderr is merged into stdout, in
\* the order the lines were written), "".
ExecStreamReturns(err_first) ==
    /\ ex_pc = "running"
    /\ ex_call[1].method = "exec_stream"
    /\ ex_call[1].command.dur # Never
    /\ ex_clock = ex_call[1].command.dur
    /\ ex_pc' = "done"
    /\ ex_ret' = <<Returned(ex_call[1].command.rc,
                            IF err_first
                            THEN ex_call[1].command.err \o ex_call[1].command.out
                            ELSE ex_call[1].command.out \o ex_call[1].command.err,
                            <<>>)>>
    /\ UNCHANGED <<ex_call, ex_clock, execOthers>>

\* KeyboardInterrupt while the caller waits: exec_stream terminates the
\* process and re-raises; subprocess.run kills the process and re-raises.
Interrupt ==
    /\ ex_pc = "running"
    /\ ex_pc' = "done"
    /\ ex_ret' = <<Raised("KeyboardInterrupt")>>
    /\ UNCHANGED <<ex_call, ex_clock, execOthers>>

InitExec ==
    /\ ExecIdle /\ ProxyIdle /\ SwapIdle /\ RelayIdle /\ HttpIdle /\ BootIdle
    /\ SessionIdle /\ ServeIdle /\ StoreIdle /\ CertIdle /\ TunnelIdle /\ ShellIdle
NextExec ==
    \/ \E command \in Commands : \E timeout \in Timeouts : Exec(command, timeout)
    \/ \E command \in Commands : \E timeout \in Timeouts : ExecStream(command, timeout)
    \/ Tick
    \/ ExecReturns
    \/ ExecTimesOut
    \/ \E err_first \in BOOLEAN : ExecStreamReturns(err_first)
    \/ Interrupt
SpecExec == InitExec /\ [][NextExec]_vars

\* C31: an exec(command, timeout=T) that is over without an interrupt has
\* returned, not raised.  When the command was still running as T expired it
\* returned (124, "", "Command timed out after Ts"); when the command ended
\* before T it returned the command's exit code, stdout and stderr.
C31_ExecTimeoutReturns124 ==
    (ex_pc = "done" /\ ex_call[1].method = "exec"
        /\ ex_ret[1] # Raised("KeyboardInterrupt"))
        => LET c == ex_call[1].command
               T == ex_call[1].timeout
           IN  /\ ex_ret[1].how = "returned"
               /\ c.dur > T =>
                      ex_ret[1] = [how |-> "returned", rc |-> 124, stdout |-> <<>>,
                                   stderr |-> <<"Command timed out after ", T, "s">>]
               /\ c.dur < T =>
                      ex_ret[1] = [how |-> "returned", rc |-> c.rc, stdout |-> c.out,
                                   stderr |-> c.err]

\* An exec call has timed out on a command that never ends.
C31_Witness ==
    /\ ex_pc = "done"
    /\ ex_call[1].method = "exec"
    /\ ex_call[1].command.dur = Never
    /\ ex_ret[1].how = "returned"
    /\ ex_ret[1].rc = 124
\* SpecExecFair: the command and the caller keep running; nobody has to
\* interrupt.
SpecExecFair ==
    /\ SpecExec
    /\ WF_vars(Tick)
    /\ WF_vars(ExecReturns \/ ExecTimesOut)
    /\ WF_vars(\E err_first \in BOOLEAN : ExecStreamReturns(err_first))

\* C37: the agent worker of start() is the exec_stream call of agent.run
\* with its timeout; whatever the command does, never exiting included, the
\* call comes to an end, so that start() goes on to the test, audit and
\* review steps.
C37_ExecStreamEnds ==
    (ex_pc = "running" /\ ex_call[1].method = "exec_stream") ~> (ex_pc = "done")
(***************************************************************************)
(* SpecCert: the CONNECT handlers of one proxy server and its cache of     *)
(* leaf contexts.  _ProxyServer is an HTTPServer: serve_forever runs one   *)
(* handler at a time in the server thread.  A context is named by the      *)
(* certificate it was loaded from, <<host, number>>.                       *)
(***************************************************************************)
MaxHandlers == 3
Handlers == 1..MaxHandlers
Hostnames == {"api", "cdn"}

certOthers == <<proxyTable, swapVars, relayVars, httpVars, bootVars, sessVars, serveVars,
               storeVars, execVars, tunVars, shellVars>>

\* _generate_leaf_cert: a new key and a new serial number on every call.
_generate_leaf_cert(hostname) ==
    <<hostname, Cardinality({m \in minted : m[1] = hostname}) + 1>>

CertInit ==
    /\ ssl_ctx_cache = <<>>
    /\ ssl_ctx_lock = <<>>
    /\ minted = {}
    /\ h_serving = <<>>
    /\ h_pc = [c \in Handlers |-> "waiting"]
    /\ h_host = [c \in Handlers |-> ""]
    /\ h_ctx = [c \in Handlers |-> <<>>]

\* The server thread accepts a connection and its handler reads
\* "CONNECT host:port" and answers 200.
CertConnect(c, hostname) ==
    /\ h_serving = <<>>
    /\ h_pc[c] = "waiting"
    /\ h_serving' = <<c>>
    /\ h_host' = [h_host EXCEPT ![c] = hostname]
    /\ h_pc' = [h_pc EXCEPT ![c] = "lookup"]
    /\ UNCHANGED <<ssl_ctx_cache, ssl_ctx_lock, minted, h_ctx, certOthers>>

\* _get_ssl_context: with ssl_ctx_lock (first block), entered.
LookupLock(c) ==
    /\ h_pc[c] = "lookup"
    /\ ssl_ctx_lock = <<>>
    /\ ssl_ctx_lock' = <<c>>
    /\ h_pc' = [h_pc EXCEPT ![c] = "lookup_locked"]
    /\ UNCHANGED <<ssl_ctx_cache, minted, h_serving, h_host, h_ctx, certOthers>>

\* The cached context is returned, or the block is left without one; the
\* lock is released either way.
LookupCache(c) ==
    /\ h_pc[c] = "lookup_locked"
    /\ ssl_ctx_lock' = <<>>
    /\ IF h_host[c] \in DOMAIN ssl_ctx_cache
       THEN /\ h_ctx' = [h_ctx EXCEPT ![c] = <<ssl_ctx_cache[h_host[c]]>>]
            /\ h_pc' = [h_pc EXCEPT ![c] = "tunnel"]
       ELSE /\ h_pc' = [h_pc EXCEPT ![c] = "mint"]
            /\ UNCHANGED h_ctx
    /\ UNCHANGED <<ssl_ctx_cache, minted, h_serving, h_host, certOthers>>

\* _generate_leaf_cert and load_cert_chain, with the lock not held.
MintLeaf(c) ==
    /\ h_pc[c] = "mint"
    /\ minted' = minted \cup {_generate_leaf_cert(h_host[c])}
    /\ h_ctx' = [h_ctx EXCEPT ![c] = <<_generate_leaf_cert(h_host[c])>>]
    /\ h_pc' = [h_pc EXCEPT ![c] = "insert"]
    /\ UNCHANGED <<ssl_ctx_cache, ssl_ctx_lock, h_serving, h_host, certOthers>>

\* with ssl_ctx_lock (second block), entered.
InsertLock(c) ==
    /\ h_pc[c] = "insert"
    /\ ssl_ctx_lock = <<>>
    /\ ssl_ctx_lock' = <<c>>
    /\ h_pc' = [h_pc EXCEPT ![c] = "insert_locked"]
    /\ UNCHANGED <<ssl_ctx_cache, minted, h_serving, h_host, h_ctx, certOthers>>

\* ssl_ctx_cache[hostname] = ctx, whatever the cache holds by now.
InsertCache(c) ==
    /\ h_pc[c] = "insert_locked"
    /\ ssl_ctx_cache' = [h \in DOMAIN ssl_ctx_cache \cup {h_host[c]} |->
                            IF h = h_host[c] THEN h_ctx[c][1] ELSE ssl_ctx_cache[h]]
    /\ ssl_ctx_lock' = <<>>
    /\ h_pc' = [h_pc EXCEPT ![c] = "tunnel"]
    /\ UNCHANGED <<minted, h_serving, h_host, h_ctx, certOthers>>

\* The handshake, the upstream connection and _relay are over (or one of them
\* failed): do_CONNECT returns and the server thread is free again.
CertHandlerEnds(c) ==
    /\ h_pc[c] = "tunnel"
    /\ h_serving = <<c>>
    /\ h_serving' = <<>>
    /\ h_pc' = [h_pc EXCEPT ![c] = "done"]
    /\ UNCHANGED <<ssl_ctx_cache, ssl_ctx_lock, minted, h_host, h_ctx, certOthers>>

InitCert ==
    /\ CertInit /\ ProxyIdle /\ SwapIdle /\ RelayIdle /\ HttpIdle /\ BootIdle
    /\ SessionIdle /\ ServeIdle /\ StoreIdle /\ ExecIdle /\ TunnelIdle /\ ShellIdle
NextCert ==
    \/ \E c \in Handlers : \E hostname \in Hostnames : CertConnect(c, hostname)
    \/ \E c \in Handlers : LookupLock(c)
    \/ \E c \in Handlers : LookupCache(c)
    \/ \E c \in Handlers : MintLeaf(c)
    \/ \E c \in Handlers : InsertLock(c)
    \/ \E c \in Handlers : InsertCache(c)
    \/ \E c \in Handlers : CertHandlerEnds(c)
SpecCert == InitCert /\ [][NextCert]_vars

\* C35: at most one leaf certificate is minted per host; a handler looks the
\* host up, mints and inserts in one critical section, so that it holds the
\* cache lock while it mints; and a CONNECT to a host that is in the cache
\* uses the cached context.
C35_OneLeafPerHost ==
    /\ \A m \in minted : m[2] = 1
    /\ \A c \in Handlers : h_pc[c] \in {"mint", "insert"} => ssl_ctx_lock = <<c>>
    /\ \A c \in Handlers :
          h_pc[c] \in {"tunnel", "done"} => h_ctx[c] = <<ssl_ctx_cache[h_host[c]]>>
(***************************************************************************)
(* SpecTunnel: the loop of one _relay call seen from its two sockets: what *)
(* select reports, what recv and sendall give, and how the call ends.      *)
(***************************************************************************)
\* Chunks each peer writes into the tunnel at most.
MaxChunks == 2
Socks == {"client", "upstream"}
Other(sock) == IF sock = "client" THEN "upstream" ELSE "client"

\* A socket is readable when data has arrived, the peer has closed (recv
\* gives b"") or the connection is broken (recv raises).
Readable(sock) == sk_avail[sock] > 0 \/ sk_peer[sock] # "open"

\* select.select([client, upstream], [], [], _RELAY_TIMEOUT): the readable
\* sockets, in the order of the list.
SelectList ==
    (IF Readable("client") THEN <<"client">> ELSE <<>>)
        \o (IF Readable("upstream") THEN <<"upstream">> ELSE <<>>)

\* A finally block that closes the client socket only.
ClientOnly(why) == {"client"}

\* finally: for s in (client, upstream): s.close()
ClosedInFinally(why) == {"client", "upstream"}

\* The loop is left for the reason why: the finally block runs and _relay
\* returns.
RelayReturn(why) ==
    /\ t_pc' = "returned"
    /\ t_why' = why
    /\ t_ready' = <<>>
    /\ sk_open' = [k \in Socks |-> sk_open[k] /\ k \notin ClosedInFinally(why)]

TunnelInit ==
    /\ t_pc = "select"
    /\ t_ready = <<>>
    /\ t_why = ""
    /\ sk_avail = [k \in Socks |-> 0]
    /\ sk_peer = [k \in Socks |-> "open"]
    /\ sk_open = [k \in Socks |-> TRUE]

tunOthers == <<proxyTable, swapVars, relayVars, httpVars, bootVars, sessVars, serveVars,
              storeVars, execVars, certVars, shellVars>>

\* A peer writes a chunk.
PeerSends(sock) ==
    /\ t_pc # "returned"
    /\ sk_peer[sock] = "open"
    /\ sk_avail[sock] < MaxChunks
    /\ sk_avail' = [sk_avail EXCEPT ![sock] = @ + 1]
    /\ UNCHANGED <<t_pc, t_ready, t_why, sk_peer, sk_open, tunOthers>>

\* A peer closes its end, or the connection breaks.
PeerEnds(sock, how) ==
    /\ t_pc # "returned"
    /\ sk_peer[sock] = "open"
    /\ sk_peer' = [sk_peer EXCEPT ![sock] = how]
    /\ UNCHANGED <<t_pc, t_ready, t_why, sk_avail, sk_open, tunOthers>>

\* select returns with the sockets that are readable.
SelectReturns ==
    /\ t_pc = "select"
    /\ SelectList # <<>>
    /\ t_ready' = SelectList
    /\ t_pc' = "handle"
    /\ UNCHANGED <<t_why, sk_avail, sk_peer, sk_open, tunOthers>>

\* _RELAY_TIMEOUT seconds have passed with neither socket readable: select
\* returns an empty list and the loop breaks.
SelectTimesOut ==
    /\ t_pc = "select"
    /\ SelectList = <<>>
    /\ RelayReturn("idle")
    /\ UNCHANGED <<sk_avail, sk_peer, tunOthers>>

\* One turn of the for loop begins: recv on the next socket of the list.  It
\* raises on a broken connection and gives b"" once the peer has closed and
\* its data is read; else the chunk is in hand for sendall.
Recv ==
    /\ t_pc = "handle"
    /\ LET sock == t_ready[1]
       IN  IF sk_peer[sock] = "reset"
           THEN RelayReturn("recv_error") /\ UNCHANGED sk_avail
           ELSE IF sk_avail[sock] = 0
           THEN RelayReturn("eof") /\ UNCHANGED sk_avail
           ELSE /\ sk_avail' = [sk_avail EXCEPT ![sock] = @ - 1]
                /\ t_pc' = "send"
                /\ UNCHANGED <<t_ready, t_why, sk_open>>
    /\ UNCHANGED <<sk_peer, tunOthers>>

\* sendall to the other socket is over: it blocks until the peer has taken
\* the bytes and raises OSError when the connection is broken; send_ok says
\* whether it got through to a peer that has closed.
SendAll(send_ok) ==
    /\ t_pc = "send"
    /\ LET sock == t_ready[1]
       IN  IF \/ sk_peer[Other(sock)] = "reset"
              \/ sk_peer[Other(sock)] = "closed" /\ ~send_ok
           THEN RelayReturn("send_error")
           ELSE /\ t_ready' = Tail(t_ready)
                /\ t_pc' = IF Tail(t_ready) = <<>> THEN "select" ELSE "handle"
                /\ UNCHANGED <<t_why, sk_open>>
    /\ UNCHANGED <<sk_avail, sk_peer, tunOthers>>

InitTunnel ==
    /\ TunnelInit /\ ProxyIdle /\ SwapIdle /\ RelayIdle /\ HttpIdle /\ BootIdle
    /\ SessionIdle /\ ServeIdle /\ StoreIdle /\ ExecIdle /\ CertIdle /\ ShellIdle
NextTunnel ==
    \/ \E sock \in Socks : PeerSends(sock)
    \/ \E sock \in Socks : \E how \in {"closed", "reset"} : PeerEnds(sock, how)
    \/ SelectReturns
    \/ SelectTimesOut
    \/ Recv
    \/ \E send_ok \in BOOLEAN : SendAll(send_ok)
SpecTunnel == InitTunnel /\ [][NextTunnel]_vars

\* SpecTunnelFair: the handler thread keeps running, and a peer whose
\* connection stands takes the bytes sent to it, so that no sendall blocks
\* for ever.
SpecTunnelFair ==
    /\ SpecTunnel
    /\ WF_vars(SelectReturns)
    /\ WF_vars(SelectTimesOut)
    /\ WF_vars(Recv)
    /\ WF_vars(\E send_ok \in BOOLEAN : SendAll(send_ok))
-----------------------------------------------------------------------------
(***************************************************************************)
(* SpecShell: the loop of shell() in cli.py.  The shell reads one input,   *)
(* calls the method of its session that the input selects, and reads the   *)
(* next input when the call has returned.  No call into the session is     *)
(* wrapped in try/except, so an exception that leaves the call leaves      *)
(* shell() too.                                                            *)
(***************************************************************************)

\* What the user types at the prompt: end of input (Ctrl-D, Ctrl-C), "exit"
\* or "quit", a snapshot command, a session command, or any other text.
ShellInputs == {"eof", "exit", "list", "test", "diff", "merge", "reject", "text"}

\* session and session.is_active
ShellActive == sh_session /\ sandbox

\* The call the loop makes for an input: "ended" and "prompt" where it makes
\* none.
ShellDispatch(input) ==
    IF input \in {"eof", "exit"} THEN (IF ShellActive THEN "exit" ELSE "ended")
    ELSE IF input = "list" THEN "prompt"
    ELSE IF ShellActive
    THEN (IF input = "text" THEN "follow_up" ELSE input)
    ELSE "start"

\* Session.method of each call, as the session records it in last.op.
ShellMethod(call) ==
    CASE call = "start" -> "start"
      [] call = "test" -> "run_tests"
      [] call = "diff" -> "show_diff"
      [] call = "merge" -> "merge"
      [] call \in {"reject", "exit"} -> "reject"
      [] call = "follow_up" -> "follow_up"

shellOthers == <<proxyTable, swapVars, relayVars, httpVars, bootVars, serveVars,
                 storeVars, execVars, certVars, tunVars>>

\* input(prompt) returns and the loop selects the call.  For a new task,
\* session = Session() is assigned before start() is called.
ShellInput(input) ==
    /\ sh_pc = "prompt"
    /\ sh_pc' = ShellDispatch(input)
    /\ sh_session' = (sh_session \/ ShellDispatch(input) = "start")
    /\ last' = Last("shell", input)
    /\ UNCHANGED <<swap_table, hostVars, startVars, workVars, project, snapshots, logs>>
    /\ UNCHANGED shellOthers

\* The selected method of the session runs: start() step by step, the other
\* methods as one step each.
ShellCall ==
    /\ sh_pc \notin {"off", "prompt", "ended", "raised"}
    /\ CASE sh_pc = "start" ->
              \/ last.op = "shell" /\ s_pc # "new" /\ NewSession
              \/ Snapshot
              \/ \E tok \in SessionTokens : BuildShadowMap(tok)
              \/ TryStartProxy
              \/ CollectAgentEnv
              \/ \E cp_ok \in BOOLEAN : StartBoot(cp_ok)
              \/ StartBootRaises
              \/ InstallCA
              \/ SubmitAgent
              \/ SubmitTester
              \/ \E path \in Paths : \E content \in NewFiles(shadow_env) :
                     AgentWrites(path, content)
              \/ \E out \in AgentEnded : AgentFinishes(out)
              \/ \E out \in {"none", "code", "raised"} : TesterFinishes(out)
              \/ Join
              \/ RunTests
              \/ StartLog
         [] sh_pc = "test" ->
              last.op = "shell" /\ \E path \in Paths : \E writes \in BOOLEAN :
                                       ManualTests(path, writes)
         [] sh_pc = "diff" -> last.op = "shell" /\ ShowDiff
         [] sh_pc = "merge" ->
              last.op = "shell" /\ \E blocked \in BOOLEAN :
                                   \E verdict \in {"approved", "rejected", "raised"} :
                                       Merge(blocked, verdict)
         [] sh_pc \in {"reject", "exit"} -> last.op = "shell" /\ Reject
         [] sh_pc = "follow_up" ->
              last.op = "shell" /\ \E path \in Paths : \E content \in NewFiles(shadow_env) :
                                   \E raised \in BOOLEAN : FollowUp(path, content, raised)

\* The call in progress has ended by an exception.
ShellCallRaised ==
    \/ last.path \in {"raised", "review_raised"}
    \/ sh_pc = "start" /\ s_pc \in {"exit", "failed"}
    \/ sh_pc = "merge" /\ last.path \in {"approved", "rejected"} /\ WriteLogRaises

\* The call ends.  An exception leaves shell(); after "exit" the loop is left
\* by break; merge and reject are followed by session = None; after any
\* other call the loop reads the next input.
ShellReturn ==
    /\ sh_pc \notin {"off", "prompt", "ended", "raised"}
    /\ last.op = ShellMethod(sh_pc)
    /\ sh_pc = "start" => s_pc \in {"open", "exit", "failed"}
    /\ sh_pc' = IF ShellCallRaised THEN "raised"
                ELSE IF sh_pc = "exit" THEN "ended" ELSE "prompt"
    /\ sh_session' = (sh_session /\ (ShellCallRaised \/ sh_pc \notin {"merge", "reject"}))
    /\ UNCHANGED <<proxyTable, sessVars, shellOthers>>

InitShell ==
    /\ dotenv = [k \in {"STRIPE_KEY"} |-> FileVal]
    /\ environ \in {[k \in S |-> HostVal] : S \in SUBSET {"ANTHROPIC_API_KEY"}}
    /\ config \in SessionConfigs
    /\ crypto \in BOOLEAN
    /\ project = [p \in {"app.py"} |-> OldFile]
    /\ SessionNew
    /\ sh_pc = "prompt"
    /\ sh_session = FALSE
    /\ ProxyIdle /\ SwapIdle /\ RelayIdle /\ HttpIdle /\ BootIdle /\ ServeIdle /\ StoreIdle
    /\ ExecIdle /\ CertIdle /\ TunnelIdle
NextShell ==
    \/ \E input \in ShellInputs : ShellInput(input)
    \/ ShellCall
    \/ ShellReturn
SpecShell == InitShell /\ [][NextShell]_vars

\* The loop selects start() only when no session is active, and sends any
\* other text to the active session as a follow-up.
OneSessionAtATime ==
    [][sh_pc = "prompt" =>
          /\ sh_pc' = "start" => ~ShellActive
          /\ (ShellActive /\ last'.path = "text") => sh_pc' = "follow_up"]_vars

\* follow_up and run_tests on a session without a sandbox only print.
InactiveCallsChangeNothing ==
    [][(last' # last /\ last'.op \in {"follow_up", "run_tests"} /\ ~sandbox)
          => UNCHANGED <<hostVars, startVars, workVars, project, snapshots, logs>>]_vars

====
